---- MODULE Spec2Model ----
(***************************************************************************)
(* Expiry tracker: the date and shelf-life recognition engine              *)
(* (date_recognizer.py), its expiry calculator, and the stores that keep   *)
(* and refresh days_remaining (android_package/database.py, server.py).    *)
(*                                                                         *)
(* Conventions.                                                            *)
(*   - A Python None / SQL NULL is the empty tuple None; an optional       *)
(*     integer n that is present is the 1-tuple <<n>>.                     *)
(*   - A date (datetime.date, or a datetime at midnight) is the tuple      *)
(*     <<year, month, day>>.                                               *)
(*   - A text is a sequence of characters; a character is a string: an     *)
(*     ASCII character stands for itself, a CJK character is named by its  *)
(*     Unicode code point ("U5E74" is the character nian, year).           *)
(*   - A confidence is kept in tenths: 8 is 0.8.                           *)
(***************************************************************************)
EXTENDS Integers, Sequences, FiniteSets, TLC

VARIABLES
    \* --- ExpiryCalculator: arguments and result of the last calls
    production_date,     \* calculate_expiry_date: argument production_date
    shelf_life_months,   \* calculate_expiry_date: argument shelf_life_months
    shelf_life_days,     \* calculate_expiry_date: argument shelf_life_days
    expiry_date,         \* calculate_expiry_date: returned value
    remaining_arg,       \* get_days_remaining: argument expiry_date
    remaining,           \* get_days_remaining: returned value
    calc_pc,             \* which of the two was called last
    \* --- one recognition pass of DateRecognizer.recognize_date
    results,             \* what EasyOCR read in the pass: text and confidence
    texts,               \* the text fragments the OCR engines returned
    matches,             \* parse_date_patterns: every regex match it looked at
    dates,               \* parse_date_patterns: the candidates it returned
    best_date,           \* recognize_date: returned value
    rec_pc,              \* where the pass stands
    \* --- the date text parser (OCRProcessor.parse_date)
    date_text,           \* the text handed to parse_date
    date_obj,            \* how parse_date ended: the date, or the exception
    parse_pc,            \* where the call stands
    \* --- the two camera scanners (BarcodeScanner, OCRProcessor)
    platform,            \* kivy.utils.platform: "android" or a desktop
    scanners,            \* the fields of each scanner object
    kivy_clock,          \* the events scheduled on the Kivy Clock
    camera_opening,      \* scanners whose openCamera has not called back yet
    scan_log,            \* per scanner: what its callers have seen of it
    app_running,         \* FALSE once an exception has left a Kivy handler
    \* --- the stores
    product_records,     \* the phone's table product_records, in rowid order
    server_records,      \* the server's table product_records, in rowid order
    last_op,             \* the store operation that ran last, and how it ended
    products,            \* the phone's table products, as its connection sees it
    committed,           \* the phone's tables as they stand in the database file
    returned,            \* what the last query of the phone's tables returned
    \* --- the system clock
    today,               \* the current date
    tod                  \* the time of day, in ticks since midnight

calc_vars == <<production_date, shelf_life_months, shelf_life_days,
               expiry_date, remaining_arg, remaining, calc_pc>>
rec_vars == <<results, texts, matches, dates, best_date, rec_pc>>
clock_vars == <<today, tod>>
db_vars == <<products, committed, returned>>
store_vars == <<product_records, server_records, last_op, db_vars>>
parse_vars == <<date_text, date_obj, parse_pc>>
scan_vars == <<platform, scanners, kivy_clock, camera_opening, scan_log,
               app_running>>
front_vars == <<parse_vars, scan_vars>>
vars == <<calc_vars, rec_vars, store_vars, clock_vars, front_vars>>

\* What the operations of one component leave alone.
not_calc == <<rec_vars, store_vars, clock_vars, front_vars>>
not_rec == <<calc_vars, store_vars, clock_vars, front_vars>>

\* The clock divides a day into TicksPerDay ticks; tick 0 is midnight.
TicksPerDay == 2

None == <<>>

Some(n) == <<n>>

(***************************************************************************)
(* The proleptic Gregorian calendar of Python's datetime.                  *)
(***************************************************************************)
IsLeap(y) == (y % 4 = 0 /\ y % 100 # 0) \/ y % 400 = 0

DaysInMonth(y, m) ==
    IF m = 2 THEN (IF IsLeap(y) THEN 29 ELSE 28)
    ELSE IF m \in {4, 6, 9, 11} THEN 30 ELSE 31

RECURSIVE DaysBeforeMonth(_, _)
DaysBeforeMonth(y, m) ==
    IF m <= 1 THEN 0 ELSE DaysBeforeMonth(y, m - 1) + DaysInMonth(y, m - 1)

DaysBeforeYear(y) ==
    LET p == y - 1 IN p * 365 + (p \div 4) - (p \div 100) + (p \div 400)

\* date.toordinal(): 0001-01-01 is day 1.
ToOrdinal(date) ==
    DaysBeforeYear(date[1]) + DaysBeforeMonth(date[1], date[2]) + date[3]

\* date.fromordinal(n), for n in 1 .. ToOrdinal(<<9999, 12, 31>>).
FromOrdinal(n) ==
    LET n0   == n - 1
        n400 == n0 \div 146097
        r400 == n0 % 146097
        n100 == r400 \div 36524
        r100 == r400 % 36524
        n4   == r100 \div 1461
        r4   == r100 % 1461
        n1   == r4 \div 365
        r1   == r4 % 365
        year == n400 * 400 + n100 * 100 + n4 * 4 + n1 + 1
    IN  IF n1 = 4 \/ n100 = 4
        THEN <<year - 1, 12, 31>>
        ELSE LET month == CHOOSE m \in 1..12 :
                              /\ DaysBeforeMonth(year, m) <= r1
                              /\ r1 < DaysBeforeMonth(year, m) + DaysInMonth(year, m)
             IN  <<year, month, r1 - DaysBeforeMonth(year, month) + 1>>

\* datetime(year, month, day) raises ValueError unless this holds.
DateTimeOk(year, month, day) ==
    /\ year \in 1..9999
    /\ month \in 1..12
    /\ day \in 1..DaysInMonth(year, month)

\* date + timedelta(days = n): the date n days later; OverflowError (None here,
\* every caller below turns the exception into None) outside 0001-01-01 .. 9999-12-31.
AddDays(date, n) ==
    LET o == ToOrdinal(date) + n
    IN  IF o >= 1 /\ o <= ToOrdinal(<<9999, 12, 31>>) THEN FromOrdinal(o) ELSE None

\* (a - b).days for two dates.
DaysBetween(a, b) == ToOrdinal(a) - ToOrdinal(b)

(***************************************************************************)
(* ExpiryCalculator: DateRecognizer.calculate_expiry_date and              *)
(* DateRecognizer.get_days_remaining.                                      *)
(***************************************************************************)
\* Python truthiness of an optional integer: None and 0 are false.
Truthy(opt) == opt # None /\ opt[1] # 0

\* The date n calendar months after a date, the day cut to the month's length.
AddCalendarMonths(date, n) ==
    LET k == (date[1] * 12 + (date[2] - 1)) + n
        y == k \div 12
        m == (k % 12) + 1
        d == IF date[3] > DaysInMonth(y, m) THEN DaysInMonth(y, m) ELSE date[3]
    IN  <<y, m, d>>

\* Mutant of calculate_expiry_date: the months branch adds calendar months.
CalculateExpiryDateCalendarMonths(production, months, days) ==
    IF production = None THEN None
    ELSE IF Truthy(months) THEN AddCalendarMonths(production, months[1])
    ELSE IF Truthy(days) THEN AddDays(production, days[1])
    ELSE AddDays(production, 180)

\* Mutant of calculate_expiry_date: a month counts 31 days.
CalculateExpiryDateMonths31(production, months, days) ==
    IF production = None THEN None
    ELSE IF Truthy(months) THEN AddDays(production, months[1] * 31)
    ELSE IF Truthy(days) THEN AddDays(production, days[1])
    ELSE AddDays(production, 180)

\* calculate_expiry_date(production_date, shelf_life_months, shelf_life_days).
\* A production_date of None makes the addition raise TypeError, which the
\* except clause turns into the result None.
CalculateExpiryDate(production, months, days) ==
    IF production = None THEN None
    ELSE IF Truthy(months) THEN AddDays(production, months[1] * 30)
    ELSE IF Truthy(days) THEN AddDays(production, days[1])
    ELSE AddDays(production, 180)

\* get_days_remaining(expiry_date), called when the clock shows the date now.
\* A value that is no date makes the subtraction raise TypeError, and the
\* except clause returns 0.
GetDaysRemaining(expiry, now) ==
    IF expiry = None THEN 0 ELSE DaysBetween(expiry, now)

(***************************************************************************)
(* Texts.  The characters parse_date_patterns' patterns name, by code      *)
(* point: nian (year), yue (month), ri (day), the labels sheng-chan-ri-qi  *)
(* (production date), zhi-zao-ri-qi (manufacturing date), bao-zhi-qi       *)
(* (shelf life), bao-zhi-qi-zhi (best before), ge (the counter word), and  *)
(* the full-width colon.                                                   *)
(***************************************************************************)
cNian == "U5E74"

cYue == "U6708"

cRi == "U65E5"

cSheng == "U751F"

cChan == "U4EA7"

cQi == "U671F"

cZhiMake == "U5236"

cZao == "U9020"

cBao == "U4FDD"

cZhiQuality == "U8D28"

cZhiUntil == "U81F3"

cGe == "U4E2A"

cFullColon == "UFF1A"

DigitChars == <<"0", "1", "2", "3", "4", "5", "6", "7", "8", "9">>

DigitSet == { DigitChars[i] : i \in 1..10 }

DigitValue(c) == (CHOOSE i \in 1..10 : DigitChars[i] = c) - 1

\* int(s) for a string of decimal digits.
RECURSIVE IntOf(_)
IntOf(ds) ==
    IF Len(ds) = 0 THEN 0
    ELSE IntOf(SubSeq(ds, 1, Len(ds) - 1)) * 10 + DigitValue(ds[Len(ds)])

(***************************************************************************)
(* Regular expressions.  Each pattern of parse_date_patterns is a          *)
(* concatenation of elements, and an element takes lo..hi characters of a  *)
(* class, as many as it can (greedy), giving characters back when the rest *)
(* of the pattern does not match otherwise (backtracking):                 *)
(*   One(S)       a literal character or a class [...]: one character of S *)
(*   Group(lo,hi) (\d{lo,hi}) or (\d{n}): a captured run of digits         *)
(*   Star(S)      [...]*: any number of characters of S                    *)
(***************************************************************************)
One(S) == [kind |-> "one", chars |-> S, lo |-> 1, hi |-> 1]

Group(lo, hi) == [kind |-> "group", chars |-> DigitSet, lo |-> lo, hi |-> hi]

Star(S) == [kind |-> "star", chars |-> S, lo |-> 0, hi |-> 0]

Lit(str) == [i \in 1..Len(str) |-> One({str[i]})]

Colon == {cFullColon, ":"}

Separator == {"-", ".", "/"}

\* The list `patterns` of parse_date_patterns, in its order.
Patterns == <<
    \* (\d{4})nian(\d{1,2})yue(\d{1,2})ri
    <<Group(4, 4), One({cNian}), Group(1, 2), One({cYue}), Group(1, 2), One({cRi})>>,
    \* (\d{4})nian(\d{1,2})yue
    <<Group(4, 4), One({cNian}), Group(1, 2), One({cYue})>>,
    \* (\d{4})[-./](\d{1,2})[-./](\d{1,2})
    <<Group(4, 4), One(Separator), Group(1, 2), One(Separator), Group(1, 2)>>,
    \* (\d{4})[-./](\d{1,2})
    <<Group(4, 4), One(Separator), Group(1, 2)>>,
    \* sheng-chan-ri-qi[colon](\d{4})[-./nian](\d{1,2})[-./yue](\d{1,2})
    Lit(<<cSheng, cChan, cRi, cQi>>) \o
        <<One(Colon), Group(4, 4), One(Separator \cup {cNian}), Group(1, 2),
          One(Separator \cup {cYue}), Group(1, 2)>>,
    \* sheng-chan[colon]*(\d{4})[-./nian](\d{1,2})[-./yue](\d{1,2})
    Lit(<<cSheng, cChan>>) \o
        <<Star(Colon), Group(4, 4), One(Separator \cup {cNian}), Group(1, 2),
          One(Separator \cup {cYue}), Group(1, 2)>>,
    \* zhi-zao-ri-qi[colon](\d{4})[-./nian](\d{1,2})[-./yue](\d{1,2})
    Lit(<<cZhiMake, cZao, cRi, cQi>>) \o
        <<One(Colon), Group(4, 4), One(Separator \cup {cNian}), Group(1, 2),
          One(Separator \cup {cYue}), Group(1, 2)>>,
    \* bao-zhi-qi[colon](\d{1,2})[ge]*yue
    Lit(<<cBao, cZhiQuality, cQi>>) \o
        <<One(Colon), Group(1, 2), Star({cGe}), One({cYue})>>,
    \* bao-zhi-qi-zhi[colon]*(\d{4})[-./nian](\d{1,2})[-./yue](\d{1,2})
    Lit(<<cBao, cZhiQuality, cQi, cZhiUntil>>) \o
        <<Star(Colon), Group(4, 4), One(Separator \cup {cNian}), Group(1, 2),
          One(Separator \cup {cYue}), Group(1, 2)>> >>

NoMatch == [ok |-> FALSE, end |-> 0, groups |-> <<>>]

\* How many characters of S follow each other in text from position pos on,
\* counting no more than max.
RECURSIVE RunLen(_, _, _, _)
RunLen(text, pos, S, max) ==
    IF max = 0 \/ pos > Len(text) \/ text[pos] \notin S THEN 0
    ELSE 1 + RunLen(text, pos + 1, S, max - 1)

\* re.match of the elements k.. of pat at position pos of text: the first match
\* in the order of a backtracking matcher, with the groups it captured.
RECURSIVE MatchFrom(_, _, _, _)
RECURSIVE TryLen(_, _, _, _, _)
TryLen(pat, k, text, pos, n) ==
    IF n < pat[k].lo THEN NoMatch
    ELSE LET r == MatchFrom(pat, k + 1, text, pos + n)
         IN  IF r.ok
             THEN IF pat[k].kind = "group"
                  THEN [r EXCEPT !.groups = <<SubSeq(text, pos, pos + n - 1)>> \o @]
                  ELSE r
             ELSE TryLen(pat, k, text, pos, n - 1)

MatchFrom(pat, k, text, pos) ==
    IF k > Len(pat) THEN [ok |-> TRUE, end |-> pos, groups |-> <<>>]
    ELSE LET max == IF pat[k].kind = "star" THEN Len(text) ELSE pat[k].hi
         IN  TryLen(pat, k, text, pos, RunLen(text, pos, pat[k].chars, max))

\* What re.findall gives for one match: with one group the captured string,
\* which is a sequence of one-character strings; with several groups the tuple
\* of the captured strings.
MatchValue(groups) ==
    IF Len(groups) = 1
    THEN [i \in 1..Len(groups[1]) |-> <<groups[1][i]>>]
    ELSE groups

\* re.findall(pattern, text): the non-overlapping matches from left to right.
RECURSIVE FindAllFrom(_, _, _)
FindAllFrom(pat, text, pos) ==
    IF pos > Len(text) THEN <<>>
    ELSE LET r == MatchFrom(pat, 1, text, pos)
         IN  IF r.ok
             THEN <<MatchValue(r.groups)>> \o FindAllFrom(pat, text, r.end)
             ELSE FindAllFrom(pat, text, pos + 1)

FindAll(pat, text) == FindAllFrom(pat, text, 1)

(***************************************************************************)
(* Candidate Extractor: DateRecognizer.parse_date_patterns.                *)
(***************************************************************************)
\* The entries of `dates`.  A key the dict does not have is None here.
DateCandidate(date, text, confidence) ==
    [type |-> "production_date", date |-> date, shelf_life_months |-> None,
     text |-> text, confidence |-> confidence]

ShelfLifeCandidate(months, text) ==
    [type |-> "shelf_life", date |-> None, shelf_life_months |-> Some(months),
     text |-> text, confidence |-> 7]

\* The largest value of a C int: datetime() raises OverflowError for a field
\* above it, ValueError for a field out of its range.
CIntMax == 2147483647

\* The exception the body of the innermost loop raises for a match: "none",
\* "ValueError" (which the loop catches) or "OverflowError" (which it does not).
BodyException(match) ==
    IF Len(match) \in {2, 3} THEN
        IF \E i \in 1..Len(match) : IntOf(match[i]) > CIntMax THEN "OverflowError"
        ELSE IF ~DateTimeOk(IntOf(match[1]), IntOf(match[2]),
                            IF Len(match) = 3 THEN IntOf(match[3]) ELSE 1)
             THEN "ValueError"
        ELSE "none"
    ELSE "none"

\* The loop body without the check of datetime(): the fields are appended as
\* they were read.
CandidateOfUnchecked(text, match) ==
    IF Len(match) = 3
    THEN <<DateCandidate(<<IntOf(match[1]), IntOf(match[2]), IntOf(match[3])>>, text, 8)>>
    ELSE IF Len(match) = 2
    THEN <<DateCandidate(<<IntOf(match[1]), IntOf(match[2]), 1>>, text, 6)>>
    ELSE IF Len(match) = 1 THEN <<ShelfLifeCandidate(IntOf(match[1]), text)>>
    ELSE <<>>

\* The body of the innermost loop: what one match appends to `dates`, <<>> when
\* datetime() raises ValueError and the match is skipped.  len(match) and
\* map(int, match) see the elements of the tuple, or the characters of the
\* string when the pattern has one group.
CandidateOf(text, match) ==
    IF Len(match) = 3 THEN
        LET year == IntOf(match[1])
            month == IntOf(match[2])
            day == IntOf(match[3])
        IN  IF DateTimeOk(year, month, day)
            THEN <<DateCandidate(<<year, month, day>>, text, 8)>>
            ELSE <<>>
    ELSE IF Len(match) = 2 THEN
        LET year == IntOf(match[1])
            month == IntOf(match[2])
        IN  IF DateTimeOk(year, month, 1)
            THEN <<DateCandidate(<<year, month, 1>>, text, 6)>>
            ELSE <<>>
    ELSE IF Len(match) = 1 THEN
        <<ShelfLifeCandidate(IntOf(match[1]), text)>>
    ELSE <<>>

\* for match in matches: the matches of one pattern in one text, each with
\* what it appended.
MatchesOfPattern(text, p) ==
    LET found == FindAll(Patterns[p], text)
    IN  [i \in 1..Len(found) |->
            [text |-> text, pattern |-> p, match |-> found[i],
             appended |-> CandidateOf(text, found[i])]]

\* for pattern in patterns
RECURSIVE MatchesOfText(_, _)
MatchesOfText(text, p) ==
    IF p > Len(Patterns) THEN <<>>
    ELSE MatchesOfPattern(text, p) \o MatchesOfText(text, p + 1)

\* for text in texts
RECURSIVE MatchesOfTexts(_, _)
MatchesOfTexts(ts, i) ==
    IF i > Len(ts) THEN <<>>
    ELSE MatchesOfText(ts[i], 1) \o MatchesOfTexts(ts, i + 1)

RECURSIVE Appended(_, _)
Appended(ms, k) ==
    IF k > Len(ms) THEN <<>> ELSE ms[k].appended \o Appended(ms, k + 1)

\* parse_date_patterns(texts): the list `dates` it returns.
ParseDatePatterns(ts) == Appended(MatchesOfTexts(ts, 1), 1)

(***************************************************************************)
(* Disambiguator: the end of DateRecognizer.recognize_date.                *)
(***************************************************************************)
\* max(dates, key=lambda x: x.get('confidence', 0)): the first candidate of
\* the list that no other beats.
RECURSIVE MaxByConfidence(_, _, _)
MaxByConfidence(ds, k, best) ==
    IF k > Len(ds) THEN best
    ELSE MaxByConfidence(ds, k + 1,
            IF ds[k].confidence > best.confidence THEN ds[k] ELSE best)

\* recognize_date from the extracted texts on: None without texts or without
\* candidates, else the best candidate.  The result is a 0- or 1-tuple.
BestOfDates(ts, ds) ==
    IF ts = <<>> THEN None
    ELSE IF ds = <<>> THEN None
    ELSE Some(MaxByConfidence(ds, 2, ds[1]))

RecognizeDateOf(ts) == BestOfDates(ts, ParseDatePatterns(ts))

(***************************************************************************)
(* Inputs of the recognizer: the text fragments an OCR engine may return.  *)
(***************************************************************************)
\* A recognition pass gets at most MaxFragments readings and fragments in all.
MaxFragments == 2

\* str(n), and n printed with at least w digits.
RECURSIVE Str(_)
Str(n) ==
    IF n < 10 THEN <<DigitChars[n + 1]>>
    ELSE Str(n \div 10) \o <<DigitChars[(n % 10) + 1]>>

RECURSIVE Pad(_, _)
Pad(n, w) == IF Len(Str(n)) >= w THEN Str(n) ELSE <<"0">> \o Pad(n, w - 1)

\* A printed date: label, then year-month-day in the Chinese style
\* (2024nian1yue15ri), zero-padded with a separator (2024-01-15), or plain with
\* a separator (2024.1.15).
PrintedDate(shape, f) ==
    shape.label \o
    (IF shape.style = "cn"
        THEN Pad(f[1], 4) \o <<cNian>> \o Str(f[2]) \o <<cYue>> \o Str(f[3]) \o <<cRi>>
     ELSE IF shape.style = "padded"
        THEN Pad(f[1], 4) \o <<shape.sep>> \o Pad(f[2], 2) \o <<shape.sep>> \o Pad(f[3], 2)
     ELSE Pad(f[1], 4) \o <<shape.sep>> \o Str(f[2]) \o <<shape.sep>> \o Str(f[3]))

\* The year, month and day fields printed: real dates, 29 February in and out
\* of a leap year, day 30 of February, day 31 of April, month 13.
PrintedFields ==
    { <<2024, 1, 15>>, <<2024, 2, 29>>, <<2023, 2, 29>>, <<2024, 2, 30>>,
      <<2023, 4, 31>>, <<2024, 13, 1>> }

\* Fields no date has: year 0000, month 00 and 99, day 00, 32 and 99.
MalformedFields ==
    { <<0, 1, 15>>, <<2024, 0, 10>>, <<2024, 99, 10>>, <<2024, 1, 0>>,
      <<2024, 1, 32>>, <<2024, 1, 99>> }

LabelledFields == { <<2024, 1, 15>>, <<2024, 2, 30>> }

BareShapes ==
    { [label |-> <<>>, style |-> "cn", sep |-> "-"],
      [label |-> <<>>, style |-> "padded", sep |-> "/"] }

LabelledShapes ==
    { [label |-> <<cSheng, cChan, cRi, cQi, cFullColon>>, style |-> "cn", sep |-> "-"],
      [label |-> <<cSheng, cChan, cRi, cQi, cFullColon>>, style |-> "plain", sep |-> "."],
      [label |-> <<cSheng, cChan>>, style |-> "padded", sep |-> "-"],
      [label |-> <<cZhiMake, cZao, cRi, cQi>>, style |-> "plain", sep |-> "."],
      [label |-> <<cBao, cZhiQuality, cQi, cZhiUntil, cFullColon>>, style |-> "cn", sep |-> "-"] }

\* A printed shelf life: bao-zhi-qi, a colon, the count, ge or not, yue.
PrintedShelfLife(colon, n, ge) ==
    <<cBao, cZhiQuality, cQi, colon>> \o Str(n) \o ge \o <<cYue>>

Fragments ==
    { PrintedDate(sh, f) : sh \in BareShapes, f \in PrintedFields }
    \cup { PrintedDate(sh, f) : sh \in LabelledShapes, f \in LabelledFields }
    \cup { PrintedShelfLife(cFullColon, 6, <<cGe>>),
           PrintedShelfLife(cFullColon, 12, <<cGe>>),
           PrintedShelfLife(":", 10, <<>>) }
    \cup { PrintedDate([label |-> <<>>, style |-> "padded", sep |-> "-"], f) :
                f \in MalformedFields }
    \cup { PrintedShelfLife(cFullColon, 0, <<cGe>>) }
    \cup { <<"2", "0", "2", "4", cNian, "1", cYue>>,
           <<"2", "0", "2", "4", "-", "1", "3">>,
           <<"A", "B", "C">> }

\* The readings of EasyOCR: (bbox, text, confidence), the confidence in
\* tenths.  A reading is kept when its confidence is above OcrThreshold.
OcrThreshold == 3

OcrConfidences == { 2, 5, 9 }

OcrTexts ==
    { PrintedDate([label |-> <<>>, style |-> "padded", sep |-> "/"], <<2024, 1, 15>>),
      PrintedDate([label |-> <<cSheng, cChan, cRi, cQi, cFullColon>>, style |-> "cn",
                   sep |-> "-"], <<2024, 1, 15>>),
      PrintedShelfLife(cFullColon, 6, <<cGe>>) }

Readings == [text : OcrTexts, confidence : OcrConfidences]

\* DateRecognizer.extract_text_easyocr: the texts of the readings kept.
RECURSIVE EasyOcrTextsFrom(_, _)
EasyOcrTextsFrom(r, i) ==
    IF i > Len(r) THEN <<>>
    ELSE (IF r[i].confidence > OcrThreshold THEN <<r[i].text>> ELSE <<>>)
         \o EasyOcrTextsFrom(r, i + 1)

EasyOcrTexts(r) == EasyOcrTextsFrom(r, 1)

(***************************************************************************)
(* The recognizer's operations.                                            *)
(***************************************************************************)
InitRec ==
    /\ results = <<>>
    /\ texts = <<>>
    /\ matches = <<>>
    /\ dates = <<>>
    /\ best_date = None
    /\ rec_pc = "extracting"

\* recognize_date, text extraction: an OCR engine returns one more fragment
\* (texts.extend).
ExtractText ==
    /\ rec_pc = "extracting"
    /\ Len(results) + Len(texts) < MaxFragments
    /\ \E f \in Fragments : texts' = Append(texts, f)
    /\ UNCHANGED <<results, matches, dates, best_date, rec_pc, not_rec>>

\* recognize_date, text extraction with EasyOCR (extract_text_easyocr): the
\* engine's readings of the image; the texts read with a confidence above the
\* threshold are kept, their confidences are not.
ExtractTextEasyOcr ==
    /\ rec_pc = "extracting"
    /\ texts = <<>>
    /\ results = <<>>
    /\ \E n \in 1..MaxFragments :
          \E r \in [1..n -> Readings] :
              /\ results' = r
              /\ texts' = EasyOcrTexts(r)
    /\ UNCHANGED <<matches, dates, best_date, rec_pc, not_rec>>

\* recognize_date, from `if not texts` to its return.
RecognizeDate ==
    /\ rec_pc = "extracting"
    /\ matches' = MatchesOfTexts(texts, 1)
    /\ dates' = Appended(matches', 1)
    /\ best_date' = BestOfDates(texts, dates')
    /\ rec_pc' = "recognized"
    /\ UNCHANGED <<results, texts, not_rec>>

\* The caller has the result; the candidate list of the pass is dropped.
RecognizeReturn ==
    /\ rec_pc = "recognized"
    /\ results' = <<>>
    /\ texts' = <<>>
    /\ matches' = <<>>
    /\ dates' = <<>>
    /\ best_date' = None
    /\ rec_pc' = "extracting"
    /\ UNCHANGED not_rec

NextRec ==
    \/ ExtractTextEasyOcr
    \/ ExtractText
    \/ RecognizeDate
    \/ RecognizeReturn

(***************************************************************************)
(* The stores: DatabaseManager (the phone) and DesktopDataManager (the     *)
(* server).  A date kept as text is <<format, year, month, day>>: "iso" is *)
(* YYYY-MM-DD, "slash" is YYYY/MM/DD.  A row keeps the columns the         *)
(* operations below read or write; id and scan_date are left out (rows are *)
(* kept in rowid order, scan_date is never NULL).                          *)
(***************************************************************************)
IsDateObject(v) == Len(v) = 3

\* date.strftime('%Y-%m-%d')
StrfTime(date) == <<"iso", date[1], date[2], date[3]>>

\* datetime.strptime(text, '%Y-%m-%d'): the date, None for ValueError.
StrpTime(text) ==
    IF text # None /\ text[1] = "iso" THEN <<text[2], text[3], text[4]>> ELSE None

\* Integer division that rounds towards zero (CAST(x AS INTEGER) of SQLite).
TruncDiv(a, b) == IF a >= 0 THEN a \div b ELSE -((-a) \div b)

\* The time from the clock's instant to midnight at the
\* start of a date, in ticks.
TicksUntil(date, now, ticks) == (ToOrdinal(date) - ToOrdinal(now)) * TicksPerDay - ticks

\* CAST((julianday(expiry_date) - julianday('now')) AS INTEGER): NULL (None)
\* when julianday cannot read the text.
JulianDaysRemaining(text, now, ticks) ==
    IF text # None /\ text[1] = "iso"
    THEN Some(TruncDiv(TicksUntil(<<text[2], text[3], text[4]>>, now, ticks), TicksPerDay))
    ELSE None

\* DatabaseManager._update_days_remaining: the UPDATE of every row.  A NULL
\* for the NOT NULL column days_remaining fails the statement, which then
\* changes no row and raises IntegrityError.
UpdateFails(records, now, ticks) ==
    \E i \in 1..Len(records) :
        JulianDaysRemaining(records[i].expiry_date, now, ticks) = None

UpdateDaysRemaining(records, now, ticks) ==
    IF UpdateFails(records, now, ticks) THEN records
    ELSE [i \in 1..Len(records) |->
            [records[i] EXCEPT !.days_remaining =
                JulianDaysRemaining(records[i].expiry_date, now, ticks)[1]]]

\* DatabaseManager.add_product_record without shelf_life and return_days: the
\* table after the call.  The table is unchanged when the call returns False
\* (a None for a NOT NULL column).
AddProductRecord(records, barcode, name, production, expiry, days, now) ==
    LET production_text == IF production # None /\ IsDateObject(production)
                           THEN StrfTime(production) ELSE production
        expiry_text == IF expiry # None /\ IsDateObject(expiry)
                       THEN StrfTime(expiry) ELSE expiry
        days_remaining ==
            IF days = None /\ expiry_text # None
            THEN IF StrpTime(expiry_text) # None
                 THEN Some(DaysBetween(StrpTime(expiry_text), now))
                 ELSE Some(0)
            ELSE days
        existing == \E i \in 1..Len(records) :
                        records[i].barcode = barcode /\ records[i].name = name
    IN  IF production_text = None \/ expiry_text = None \/ days_remaining = None
        THEN records
        ELSE IF existing
        THEN [i \in 1..Len(records) |->
                IF records[i].barcode = barcode /\ records[i].name = name
                THEN [records[i] EXCEPT !.production_date = production_text,
                                        !.expiry_date = expiry_text,
                                        !.days_remaining = days_remaining[1],
                                        !.synced = 0]
                ELSE records[i]]
        ELSE Append(records,
                [barcode |-> barcode, name |-> name,
                 production_date |-> production_text, expiry_date |-> expiry_text,
                 days_remaining |-> days_remaining[1], synced |-> 0])

\* DesktopDataManager.add_records: whether the batch is stored (strptime reads
\* every expiry_date), and the table after it.  An exception closes the
\* connection without a commit, and no row of the batch is kept.
AddRecordsOk(batch) ==
    \A i \in 1..Len(batch) : StrpTime(batch[i].expiry_date) # None

AddRecords(table, batch, now, ticks) ==
    IF ~AddRecordsOk(batch) THEN table
    ELSE table \o
         [i \in 1..Len(batch) |->
            [barcode |-> batch[i].barcode, name |-> batch[i].name,
             production_date |-> batch[i].production_date,
             expiry_date |-> batch[i].expiry_date,
             \* (expiry_date - datetime.now()).days: timedelta.days rounds down
             days_remaining |->
                TicksUntil(StrpTime(batch[i].expiry_date), now, ticks) \div TicksPerDay]]

(***************************************************************************)
(* The phone's connection and its table products.  The connection is       *)
(* opened once; a write stays in its open transaction, seen by its own     *)
(* queries, until an operation commits.  Nothing ever rolls back.          *)
(***************************************************************************)
\* self.conn.commit(): the database file takes the connection's tables.
Commit(records, prods) == [ records |-> records, products |-> prods ]

ProductRow(barcode, name, shelf_life, return_days) ==
    [ barcode |-> barcode, name |-> name, shelf_life |-> shelf_life,
      return_days |-> return_days ]

\* What a call returned to its caller: the call, its arguments, the value.
Returned(call, args, value) == [ call |-> call, args |-> args, value |-> value ]

\* DatabaseManager.get_product: the row of the barcode, or None.
GetProduct(prods, barcode) ==
    IF \E q \in prods : q.barcode = barcode
    THEN Some(CHOOSE q \in prods : q.barcode = barcode)
    ELSE None

\* DatabaseManager.add_product: INSERT OR REPLACE on the primary key barcode.
InsertOrReplaceProduct(prods, row) ==
    { q \in prods : q.barcode # row.barcode } \cup { row }

\* ProductManager.update_product: whether it finds the product, and the row
\* it hands to add_product (an argument that is None keeps the stored field).
UpdateProductFinds(prods, barcode) == GetProduct(prods, barcode) # None

UpdatedProductAllFields(prods, barcode, name, shelf_life, return_days) ==
    ProductRow(barcode,
               IF name # None THEN name[1] ELSE "",
               IF shelf_life # None THEN shelf_life[1] ELSE 0,
               IF return_days # None THEN return_days[1] ELSE 7)

UpdatedProduct(prods, barcode, name, shelf_life, return_days) ==
    LET product == GetProduct(prods, barcode)[1]
    IN  ProductRow(barcode,
                   IF name # None THEN name[1] ELSE product.name,
                   IF shelf_life # None THEN shelf_life[1] ELSE product.shelf_life,
                   IF return_days # None THEN return_days[1]
                                         ELSE product.return_days)

(***************************************************************************)
(* Inputs of the stores.                                                   *)
(***************************************************************************)
\* The clock runs from midnight of ClockStart for MaxClockDays more days.
ClockStart == <<2024, 2, 28>>

MaxClockDays == 1

\* Shelf lives of the products scanned: 0 .. MaxProductShelfLife days.
MaxProductShelfLife == 2

\* The server table holds at most MaxServerRows rows.
MaxServerRows == 2

Barcodes == {"6901"}

Names == {"milk"}

\* Production dates read off a package.
ScannedProductionDates == { ClockStart }

\* The dates of an imported file, as text: the production date, and the
\* expiry date in either format.
ImportedProductionTexts == { StrfTime(AddDays(ClockStart, -1)) }

ImportedExpiryTexts == { StrfTime(AddDays(ClockStart, 1)), <<"slash", 2024, 3, 1>> }

\* The column 保质期(天) of an imported file: absent, or a number of days.
ImportedShelfLives == { None, Some(30) }

\* The products entered on the add-product screen and edited later.
ProductBarcodes == Barcodes \cup { "6902" }

ProductNames == Names \cup { "tea" }

ProductShelfLives == { 30 }

ProductReturnDays == { 7 }

\* The table product_records holds at most MaxRecords rows.
MaxRecords == 2

\* The names and expiry dates update_record is called with.
RecordNames == Names \cup { "tea" }

UpdatedExpiryTexts ==
    { StrfTime(ClockStart), StrfTime(AddDays(ClockStart, 8)),
      <<"slash", 2024, 3, 1>> }

\* status_filter of filter_products: 全部, 正常, 即将过期, 已过期.
StatusFilters == { "all", "normal", "expiring_soon", "expired" }

\* The arguments update_product is called with: None leaves a field alone.
UpdatedNames == { None } \cup { Some(n) : n \in ProductNames }

UpdatedShelfLives == { None, Some(0), Some(60) }

UpdatedReturnDays == { None, Some(0) }

(***************************************************************************)
(* The stores' operations.                                                 *)
(***************************************************************************)
InitStore ==
    /\ product_records = <<>>
    /\ server_records = <<>>
    /\ last_op = "init"
    /\ products = {}
    /\ committed = Commit(<<>>, {})
    /\ returned = Returned("none", <<>>, None)

\* The class behind ScanScreen.ocr_processor, and the methods it has.
OCRProcessorAlias == "DateRecognizer"

MethodsOf(class) ==
    IF class = "OCRProcessor"
        THEN { "start_camera", "parse_date", "stop_camera" }
        ELSE { "recognize_date", "parse_date_patterns",
               "calculate_expiry_date", "get_days_remaining" }

\* ScanScreen.on_date_recognized: the date text is parsed with parse_date of
\* ScanScreen.ocr_processor, the expiry date and the days remaining are
\* computed from the production date and the product's shelf life, and the
\* record is saved with add_product_record.  An exception on the way, the
\* missing method among them, is caught and shown; nothing is saved then.
ScanRecord ==
    \E b \in Barcodes, n \in Names, production \in ScannedProductionDates,
       shelf_life \in 0..MaxProductShelfLife :
        LET expiry == AddDays(production, shelf_life)
            days == Some(DaysBetween(expiry, today))
        IN  /\ IF "parse_date" \in MethodsOf(OCRProcessorAlias)
                 THEN /\ product_records' =
                           AddProductRecord(product_records, b, n, production,
                                            expiry, days, today)
                      /\ committed' = Commit(product_records', products)
                      /\ last_op' = "add"
                 ELSE /\ product_records' = product_records
                      /\ committed' = committed
                      /\ last_op' = "scan_failed"
            /\ UNCHANGED <<server_records, products, returned>>
            /\ UNCHANGED <<calc_vars, rec_vars, clock_vars, front_vars>>

\* ORDER BY days_remaining ASC, by insertion from the first row on.
RECURSIVE InsertByDays(_, _)
InsertByDays(sorted, row) ==
    IF sorted = <<>> THEN <<row>>
    ELSE IF Head(sorted).days_remaining <= row.days_remaining
    THEN <<Head(sorted)>> \o InsertByDays(Tail(sorted), row)
    ELSE <<row>> \o sorted

RECURSIVE OrderByDaysRemaining(_)
OrderByDaysRemaining(rows) ==
    IF rows = <<>> THEN <<>>
    ELSE InsertByDays(OrderByDaysRemaining(SubSeq(rows, 1, Len(rows) - 1)),
                      rows[Len(rows)])

\* add_product_record, the part for the table products: with a shelf_life or
\* a return_days the method runs SELECT id FROM products, and products has no
\* column id, so the statement raises and the method returns False.
ProductsPartRaises(shelf_life, return_days) ==
    shelf_life # None \/ return_days # None

\* add_product_record, the INSERT or UPDATE of the record: a None for a NOT
\* NULL column raises and the statement writes nothing.
RecordPartRaises(production, expiry) == production = None \/ expiry = None

\* DatabaseManager.add_product_record called with days_remaining not given:
\* the record is written; the call commits and returns True unless a part
\* raised, and then what was written before stays in the open transaction.
AddProductRecordCall ==
    \E b \in Barcodes, n \in Names,
       production \in ImportedProductionTexts \cup { None },
       expiry \in ImportedExpiryTexts, shelf_life \in ImportedShelfLives :
        LET written == AddProductRecord(product_records, b, n, production,
                                        expiry, None, today)
            raises == \/ RecordPartRaises(production, expiry)
                      \/ ProductsPartRaises(shelf_life, None)
        IN  /\ Len(written) <= MaxRecords
            /\ product_records' = written
            /\ committed' = IF raises THEN committed
                            ELSE Commit(written, products)
            /\ last_op' = IF raises THEN "add_failed" ELSE "add"
            /\ returned' = Returned("add_product_record",
                                  <<b, n, production, expiry, shelf_life>>,
                                  ~raises)
            /\ UNCHANGED <<server_records, products>>
            /\ UNCHANGED <<calc_vars, rec_vars, clock_vars, front_vars>>

\* ProductListScreen.import_from_excel with a file of one row: the dates are
\* passed as the texts of the file, days_remaining is not passed, the shelf
\* life is passed when the file has the column; the value add_product_record
\* returns is not looked at.  Then refresh_product_list calls
\* get_all_products, whose exception the handler catches.
ImportRecord ==
    \E b \in Barcodes, n \in Names, production \in ImportedProductionTexts,
       expiry \in ImportedExpiryTexts, shelf_life \in ImportedShelfLives :
        LET written == AddProductRecord(product_records, b, n, production,
                                        expiry, None, today)
            add_raises == ProductsPartRaises(shelf_life, None)
            after_add == IF add_raises THEN committed
                         ELSE Commit(written, products)
            refreshed == UpdateDaysRemaining(written, today, tod)
            refresh_raises == UpdateFails(written, today, tod)
        IN  /\ Len(written) <= MaxRecords
            /\ product_records' = refreshed
            /\ committed' = IF refresh_raises THEN after_add
                            ELSE Commit(refreshed, products)
            /\ returned' = Returned("import_from_excel",
                                  <<b, n, production, expiry, shelf_life>>, None)
            /\ last_op' = IF refresh_raises THEN "import_refresh_raised"
                          ELSE "import"
            /\ UNCHANGED <<server_records, products>>
            /\ UNCHANGED <<calc_vars, rec_vars, clock_vars, front_vars>>

\* DatabaseManager.get_all_products: the refresh of days_remaining with its
\* commit, then the SELECT.  The refresh may raise, and the call with it.
GetAllProducts ==
    LET refreshed == UpdateDaysRemaining(product_records, today, tod)
        raises == UpdateFails(product_records, today, tod)
    IN  /\ product_records' = refreshed
        /\ committed' = IF raises THEN committed ELSE Commit(refreshed, products)
        /\ returned' = Returned("get_all_products", <<>>,
                              IF raises THEN None
                              ELSE Some(OrderByDaysRemaining(refreshed)))
        /\ last_op' = IF raises THEN "refresh_raised" ELSE "refresh"
        /\ UNCHANGED <<server_records, products>>
        /\ UNCHANGED <<calc_vars, rec_vars, clock_vars, front_vars>>

\* sync_data as it would be if the rows were marked before the answer is
\* looked at.
SyncDataMarksBeforeAnswer ==
    LET batch == SelectSeq(product_records, LAMBDA r : r.synced = 0)
    IN  /\ batch # <<>>
        /\ product_records' =
              [i \in 1..Len(product_records) |->
                 [product_records[i] EXCEPT !.synced = 1]]
        /\ committed' = Commit(product_records', products)
        /\ last_op' \in { "sync_unreachable", "sync_rejected" }
        /\ UNCHANGED <<server_records, products, returned>>

\* DatabaseManager.sync_data: the rows not yet synced are posted to /api/sync,
\* where DesktopDataManager.add_records stores them and answers 200, or fails
\* and answers 500; on 200 the rows are marked synced and the mark is
\* committed.  The request may not reach the server, and the answer may not
\* reach the phone within the timeout: requests.post raises in both cases.
SyncData ==
    LET batch == SelectSeq(product_records, LAMBDA r : r.synced = 0)
        marked == [i \in 1..Len(product_records) |->
                     [product_records[i] EXCEPT !.synced = 1]]
    IN  /\ UNCHANGED <<products, returned>>
        /\ \/ /\ batch = <<>>
              /\ last_op' = "sync_nothing"
              /\ UNCHANGED <<product_records, server_records, committed>>
           \/ /\ batch # <<>>
              /\ last_op' = "sync_unreachable"
              /\ UNCHANGED <<product_records, server_records, committed>>
           \/ /\ batch # <<>>
              /\ ~AddRecordsOk(batch)
              /\ last_op' = "sync_rejected"
              /\ UNCHANGED <<product_records, server_records, committed>>
           \/ /\ batch # <<>>
              /\ AddRecordsOk(batch)
              /\ Len(server_records) + Len(batch) <= MaxServerRows
              /\ server_records' = AddRecords(server_records, batch, today, tod)
              /\ \/ /\ product_records' = marked
                    /\ committed' = Commit(marked, products)
                    /\ last_op' = "sync_stored"
                 \/ /\ last_op' = "sync_answer_lost"
                    /\ UNCHANGED <<product_records, committed>>

\* AddProductScreen.add_product: the screen wants a barcode, a name and a
\* shelf life above 0, and calls ProductManager.add_product, which is
\* DatabaseManager.add_product: INSERT OR REPLACE, then commit.
AddProduct ==
    \E b \in ProductBarcodes, n \in ProductNames, shelf_life \in ProductShelfLives,
       return_days \in ProductReturnDays :
        /\ products' = InsertOrReplaceProduct(products,
                            ProductRow(b, n, shelf_life, return_days))
        /\ committed' = Commit(product_records, products')
        /\ returned' = Returned("add_product", <<b, n, shelf_life, return_days>>,
                              TRUE)
        /\ last_op' = "add_product"
        /\ UNCHANGED <<product_records, server_records>>
        /\ UNCHANGED <<calc_vars, rec_vars, clock_vars, front_vars>>

\* ProductManager.update_product: False for an unknown barcode, else
\* add_product with the stored fields overridden by the arguments passed.
UpdateProduct ==
    \E b \in ProductBarcodes, name \in UpdatedNames,
       shelf_life \in UpdatedShelfLives, return_days \in UpdatedReturnDays :
        /\ returned' = Returned("update_product",
                              <<b, name, shelf_life, return_days>>,
                              UpdateProductFinds(products, b))
        /\ IF UpdateProductFinds(products, b)
             THEN /\ products' = InsertOrReplaceProduct(products,
                         UpdatedProduct(products, b, name, shelf_life, return_days))
                  /\ committed' = Commit(product_records, products')
                  /\ last_op' = "update_product"
             ELSE /\ last_op' = "update_product_unknown"
                  /\ UNCHANGED <<products, committed>>
        /\ UNCHANGED <<product_records, server_records>>
        /\ UNCHANGED <<calc_vars, rec_vars, clock_vars, front_vars>>

NextProducts ==
    \/ AddProduct
    \/ UpdateProduct

\* The WHERE conditions of get_statistics and filter_products.  The second
\* definition of the expired rows leaves out days_remaining = 0.
Normal(row) == row.days_remaining > 7

ExpiringSoon(row) == row.days_remaining <= 7 /\ row.days_remaining > 0

ExpiredBelowZero(row) == row.days_remaining < 0

Expired(row) == row.days_remaining <= 0

\* get_statistics, the three SELECT COUNT(*).
CountStatistics(records) ==
    [ total |-> Len(records),
      expiring_soon |-> Len(SelectSeq(records, ExpiringSoon)),
      expired |-> Len(SelectSeq(records, Expired)) ]

\* filter_products with no search text: the SELECT ... WHERE ... ORDER BY.
FilterRows(records, status_filter) ==
    OrderByDaysRemaining(
        IF status_filter = "normal" THEN SelectSeq(records, Normal)
        ELSE IF status_filter = "expiring_soon"
            THEN SelectSeq(records, ExpiringSoon)
        ELSE IF status_filter = "expired" THEN SelectSeq(records, Expired)
        ELSE records)

\* DatabaseManager.get_statistics: the refresh with its commit, then the
\* counts.  The refresh may raise, and the call with it.
GetStatistics ==
    LET refreshed == UpdateDaysRemaining(product_records, today, tod)
        raises == UpdateFails(product_records, today, tod)
    IN  /\ product_records' = refreshed
        /\ committed' = IF raises THEN committed ELSE Commit(refreshed, products)
        /\ returned' = Returned("get_statistics", <<>>,
                              IF raises THEN None
                              ELSE Some(CountStatistics(refreshed)))
        /\ last_op' = IF raises THEN "refresh_raised" ELSE "statistics"
        /\ UNCHANGED <<server_records, products>>
        /\ UNCHANGED <<calc_vars, rec_vars, clock_vars, front_vars>>

\* DatabaseManager.filter_products: the refresh with its commit, then the
\* rows of the status asked for.
FilterProducts ==
    \E status_filter \in StatusFilters :
        LET refreshed == UpdateDaysRemaining(product_records, today, tod)
            raises == UpdateFails(product_records, today, tod)
        IN  /\ product_records' = refreshed
            /\ committed' = IF raises THEN committed
                            ELSE Commit(refreshed, products)
            /\ returned' = Returned("filter_products", <<status_filter>>,
                                  IF raises THEN None
                                  ELSE Some(FilterRows(refreshed, status_filter)))
            /\ last_op' = IF raises THEN "refresh_raised" ELSE "filter"
            /\ UNCHANGED <<server_records, products>>
            /\ UNCHANGED <<calc_vars, rec_vars, clock_vars, front_vars>>

\* update_record, the UPDATE ... WHERE id = ?: the row of that id takes the
\* value; id 0 is the id of no row.
UpdateRow(records, id, key, value) ==
    [ i \in 1..Len(records) |->
        IF i # id THEN records[i]
        ELSE IF key = "name" THEN [ records[i] EXCEPT !.name = value ]
        ELSE [ records[i] EXCEPT !.expiry_date = value ] ]

\* DatabaseManager.update_record with one keyword, name or expiry_date: the
\* UPDATE, the commit, True.
UpdateRecord ==
    \E id \in 0..Len(product_records), key \in { "name", "expiry_date" } :
        \E value \in IF key = "name" THEN RecordNames ELSE UpdatedExpiryTexts :
            /\ product_records' = UpdateRow(product_records, id, key, value)
            /\ committed' = Commit(product_records', products)
            /\ returned' = Returned("update_record", <<id, key, value>>, TRUE)
            /\ last_op' = "update_record"
            /\ UNCHANGED <<server_records, products>>
            /\ UNCHANGED <<calc_vars, rec_vars, clock_vars, front_vars>>

\* delete_record, the DELETE ... WHERE id = ?.
DeleteRow(records, id) ==
    IF id \in 1..Len(records)
    THEN SubSeq(records, 1, id - 1) \o SubSeq(records, id + 1, Len(records))
    ELSE records

\* DatabaseManager.delete_record: the DELETE, the commit, True.
DeleteRecord ==
    \E id \in 0..Len(product_records) :
        /\ product_records' = DeleteRow(product_records, id)
        /\ committed' = Commit(product_records', products)
        /\ returned' = Returned("delete_record", <<id>>, TRUE)
        /\ last_op' = "delete_record"
        /\ UNCHANGED <<server_records, products>>
        /\ UNCHANGED <<calc_vars, rec_vars, clock_vars, front_vars>>

\* DatabaseManager.save_setting: the INSERT OR REPLACE into settings and the
\* commit; the line after the commit names Logger, which the module never
\* imports, and the call raises NameError.
SaveSetting ==
    /\ committed' = Commit(product_records, products)
    /\ returned' = Returned("save_setting", <<>>, None)
    /\ last_op' = "save_setting_raised"
    /\ UNCHANGED <<product_records, server_records, products>>
    /\ UNCHANGED <<calc_vars, rec_vars, clock_vars, front_vars>>

NextDb ==
    \/ AddProductRecordCall
    \/ ImportRecord
    \/ GetAllProducts
    \/ GetStatistics
    \/ FilterProducts
    \/ UpdateRecord
    \/ DeleteRecord
    \/ SaveSetting

\* Time passes: one tick, into the next day after the last tick of a day.
Tick ==
    /\ IF tod + 1 < TicksPerDay
       THEN tod' = tod + 1 /\ today' = today
       ELSE /\ DaysBetween(today, ClockStart) < MaxClockDays
            /\ tod' = 0
            /\ today' = AddDays(today, 1)
    /\ last_op' = "tick"
    /\ UNCHANGED <<product_records, server_records, db_vars, calc_vars, rec_vars, front_vars>>

NextStore ==
    \/ ScanRecord
    \/ ImportRecord
    \/ GetAllProducts
    \/ (SyncData /\ UNCHANGED <<calc_vars, rec_vars, clock_vars, front_vars>>)
    \/ Tick

(***************************************************************************)
(* Inputs of the calculator.                                               *)
(***************************************************************************)
\* The years production dates are drawn from: FirstYear .. FirstYear + YearSpan.
\* 2024 is a leap year, 2023 is not.
FirstYear == 2023

YearSpan == 1

\* Shelf lives in months are drawn from 0 .. MaxShelfLifeMonths.
MaxShelfLifeMonths == 12

\* Shelf lives in days are drawn from 0 .. MaxShelfLifeDays, and 180.
MaxShelfLifeDays == 2

\* First, middle and last days of January, February and December.
SampleDates ==
    { <<y, m, d>> : y \in FirstYear..(FirstYear + YearSpan),
                    m \in {1, 2, 12},
                    d \in {1, 5, 15, 28, 29, 30, 31} }

ProductionDates == { dt \in SampleDates : DateTimeOk(dt[1], dt[2], dt[3]) }

\* recognize_date returns None when nothing was recognised; a caller that
\* passes that on calls the calculator with a production date of None.
ProductionArgs == ProductionDates \cup {None}

MonthsArgs == {None} \cup { Some(n) : n \in 0..MaxShelfLifeMonths }

DaysArgs == {None} \cup { Some(n) : n \in 0..MaxShelfLifeDays } \cup {Some(180)}

\* The dates the clock may show.
ClockDates == { <<2024, 1, 5>>, <<2024, 1, 15>>, <<2024, 2, 29>> }

(***************************************************************************)
(* The calculator's operations.                                            *)
(***************************************************************************)
InitCalc ==
    /\ production_date = None
    /\ shelf_life_months = None
    /\ shelf_life_days = None
    /\ expiry_date = None
    /\ remaining_arg = None
    /\ remaining = 0
    /\ calc_pc = "idle"

\* A call of calculate_expiry_date.
CalculateExpiry ==
    /\ calc_pc = "idle"
    /\ \E p \in ProductionArgs, ms \in MonthsArgs, ds \in DaysArgs :
          /\ production_date' = p
          /\ shelf_life_months' = ms
          /\ shelf_life_days' = ds
          /\ expiry_date' = CalculateExpiryDate(p, ms, ds)
    /\ calc_pc' = "calculated"
    /\ UNCHANGED <<remaining_arg, remaining, not_calc>>

\* A call of get_days_remaining on the date calculate_expiry_date returned.
DaysRemainingOfResult ==
    /\ calc_pc = "calculated"
    /\ remaining_arg' = expiry_date
    /\ remaining' = GetDaysRemaining(expiry_date, today)
    /\ calc_pc' = "remaining"
    /\ UNCHANGED <<production_date, shelf_life_months, shelf_life_days,
                   expiry_date, not_calc>>

\* A call of get_days_remaining on an expiry date read off the package.
DaysRemainingOfDate ==
    /\ calc_pc = "idle"
    /\ \E e \in ProductionDates :
          /\ remaining_arg' = e
          /\ remaining' = GetDaysRemaining(e, today)
    /\ calc_pc' = "remaining"
    /\ UNCHANGED <<production_date, shelf_life_months, shelf_life_days,
                   expiry_date, not_calc>>

\* The caller is done with the results; the recognizer keeps no state.
CalcReturn ==
    /\ calc_pc = "remaining"
    /\ production_date' = None
    /\ shelf_life_months' = None
    /\ shelf_life_days' = None
    /\ expiry_date' = None
    /\ remaining_arg' = None
    /\ remaining' = 0
    /\ calc_pc' = "idle"
    /\ UNCHANGED not_calc

NextCalc ==
    \/ CalculateExpiry
    \/ DaysRemainingOfResult
    \/ DaysRemainingOfDate
    \/ CalcReturn

(***************************************************************************)
(* Regular expressions with alternatives, for strptime's directives.  An   *)
(* element offers the lengths it can take at a position in the order of    *)
(* its alternatives; the matcher takes the first that lets the rest match. *)
(***************************************************************************)
CharAt(text, pos) == IF pos >= 1 /\ pos <= Len(text) THEN text[pos] ELSE ""

NonZeroDigits == DigitSet \ {"0"}

\* The characters \w matches: digits, letters and Chinese characters (the
\* colons, the separators and the space are none).
WordChars ==
    DigitSet \cup {"A", "B", "C", "x", "_"}
    \cup {cNian, cYue, cRi, cSheng, cChan, cQi, cZhiMake, cZao, cBao, cZhiQuality,
           cZhiUntil, cGe}

Directive(kind) == [kind |-> kind, chars |-> {}]

Literal(c) == [kind |-> "one", chars |-> {c}]

AltOptions(el, text, pos) ==
    LET c1 == CharAt(text, pos)
        c2 == CharAt(text, pos + 1)
        opt(cond, n) == IF cond THEN <<n>> ELSE <<>>
    IN  CASE el.kind = "one" -> opt(c1 \in el.chars, 1)
          \* %Y: \d\d\d\d
          [] el.kind = "%Y" ->
                opt(\A i \in 0..3 : CharAt(text, pos + i) \in DigitSet, 4)
          \* %m: 1[0-2]|0[1-9]|[1-9]
          [] el.kind = "%m" ->
                opt(c1 = "1" /\ c2 \in {"0", "1", "2"}, 2)
                \o opt(c1 = "0" /\ c2 \in NonZeroDigits, 2)
                \o opt(c1 \in NonZeroDigits, 1)
          \* %d: 3[0-1]|[1-2]\d|0[1-9]|[1-9]| [1-9]
          [] el.kind = "%d" ->
                opt(c1 = "3" /\ c2 \in {"0", "1"}, 2)
                \o opt(c1 \in {"1", "2"} /\ c2 \in DigitSet, 2)
                \o opt(c1 = "0" /\ c2 \in NonZeroDigits, 2)
                \o opt(c1 \in NonZeroDigits, 1)
                \o opt(c1 = " " /\ c2 \in NonZeroDigits, 2)
          \* 20\d{2}
          [] el.kind = "20YY" ->
                opt(c1 = "2" /\ c2 = "0" /\ CharAt(text, pos + 2) \in DigitSet
                    /\ CharAt(text, pos + 3) \in DigitSet, 4)
          \* 0?[1-9]|1[0-2]
          [] el.kind = "MM" ->
                opt(c1 = "0" /\ c2 \in NonZeroDigits, 2)
                \o opt(c1 \in NonZeroDigits, 1)
                \o opt(c1 = "1" /\ c2 \in {"0", "1", "2"}, 2)
          \* 0?[1-9]|[12]\d|3[01]
          [] el.kind = "DD" ->
                opt(c1 = "0" /\ c2 \in NonZeroDigits, 2)
                \o opt(c1 \in NonZeroDigits, 1)
                \o opt(c1 \in {"1", "2"} /\ c2 \in DigitSet, 2)
                \o opt(c1 = "3" /\ c2 \in {"0", "1"}, 2)
          \* x?: the character if it is there, else nothing
          [] el.kind = "optional" -> opt(c1 \in el.chars, 1) \o <<0>>
          \* \b: between a word character and a character that is none
          [] el.kind = "boundary" ->
                opt((CharAt(text, pos - 1) \in WordChars) # (c1 \in WordChars), 0)
          [] OTHER -> <<>>

RECURSIVE AltMatch(_, _, _, _)
RECURSIVE AltTry(_, _, _, _, _, _)
AltTry(pat, k, text, pos, opts, i) ==
    IF i > Len(opts) THEN NoMatch
    ELSE LET r == AltMatch(pat, k + 1, text, pos + opts[i])
         IN  IF r.ok
             THEN IF pat[k].kind \in {"one", "optional", "boundary"} THEN r
                  ELSE [r EXCEPT !.groups = <<SubSeq(text, pos, pos + opts[i] - 1)>> \o @]
             ELSE AltTry(pat, k, text, pos, opts, i + 1)

AltMatch(pat, k, text, pos) ==
    IF k > Len(pat) THEN [ok |-> TRUE, end |-> pos, groups |-> <<>>]
    ELSE AltTry(pat, k, text, pos, AltOptions(pat[k], text, pos), 1)

(***************************************************************************)
(* OCRProcessor._extract_date: the date text found in the text of a frame. *)
(***************************************************************************)
SepOr(c) == [kind |-> "one", chars |-> Separator \cup {c}]

Sep == [kind |-> "one", chars |-> Separator]

WordBoundary == [kind |-> "boundary", chars |-> {}]

Optional(c) == [kind |-> "optional", chars |-> {c}]

ProductionLabel == <<Literal(cSheng), Literal(cChan), Literal(cRi), Literal(cQi),
                     [kind |-> "one", chars |-> Colon]>>

\* The list `patterns` of _extract_date, in its order, each with the groups
\* that the branch for the pattern puts first, second and third in the text it
\* returns.
ExtractPatterns == <<
    [pat |-> <<WordBoundary, Directive("20YY"), SepOr(cNian), Directive("MM"),
               SepOr(cYue), Directive("DD"), Optional(cRi), WordBoundary>>,
     order |-> <<1, 2, 3>>],
    [pat |-> <<WordBoundary, Directive("DD"), Sep, Directive("MM"), Sep,
               Directive("20YY"), WordBoundary>>,
     order |-> <<3, 2, 1>>],
    [pat |-> <<WordBoundary, Directive("MM"), Sep, Directive("DD"), Sep,
               Directive("20YY"), WordBoundary>>,
     order |-> <<3, 1, 2>>],
    [pat |-> ProductionLabel \o
             <<Directive("20YY"), SepOr(cNian), Directive("MM"), SepOr(cYue),
               Directive("DD"), Optional(cRi)>>,
     order |-> <<1, 2, 3>>],
    [pat |-> ProductionLabel \o
             <<Directive("DD"), Sep, Directive("MM"), Sep, Directive("20YY")>>,
     order |-> <<3, 2, 1>>],
    [pat |-> ProductionLabel \o
             <<Directive("MM"), Sep, Directive("DD"), Sep, Directive("20YY")>>,
     order |-> <<3, 1, 2>>],
    [pat |-> <<Directive("20YY"), Literal(cNian), Directive("MM"), Literal(cYue),
               Directive("DD"), Literal(cRi)>>,
     order |-> <<1, 2, 3>>] >>

\* matches[0] of re.findall(pattern, text): the groups of the leftmost match.
RECURSIVE FirstMatchFrom(_, _, _)
FirstMatchFrom(pat, text, pos) ==
    IF pos > Len(text) + 1 THEN NoMatch
    ELSE IF AltMatch(pat, 1, text, pos).ok THEN AltMatch(pat, 1, text, pos)
    ELSE FirstMatchFrom(pat, text, pos + 1)

\* The loop over the patterns from pattern i on: the text returned for the
\* first pattern that matches, f"{a}-{b}-{c}", None when none matches.
RECURSIVE ExtractDateFrom(_, _)
ExtractDateFrom(text, i) ==
    IF i > Len(ExtractPatterns) THEN None
    ELSE LET r == FirstMatchFrom(ExtractPatterns[i].pat, text, 1)
             o == ExtractPatterns[i].order
         IN  IF r.ok
             THEN Some(r.groups[o[1]] \o <<"-">> \o r.groups[o[2]] \o <<"-">> \o r.groups[o[3]])
             ELSE ExtractDateFrom(text, i + 1)

ExtractDate(text) == ExtractDateFrom(text, 1)

(***************************************************************************)
(* DateTextParser: OCRProcessor.parse_date.                                *)
(***************************************************************************)
\* A format of the list `formats`: its elements, and which of its groups is
\* the year, the month and the day.
Format(e1, s1, e2, s2, e3, tail, y, m, d) ==
    [pat |-> <<Directive(e1), Literal(s1), Directive(e2), Literal(s2), Directive(e3)>>
             \o tail,
     y |-> y, m |-> m, d |-> d]

\* The list with the month-first formats before the day-first ones.
FormatsMonthFirst == <<
    Format("%Y", "-", "%m", "-", "%d", <<>>, 1, 2, 3),
    Format("%Y", "/", "%m", "/", "%d", <<>>, 1, 2, 3),
    Format("%Y", ".", "%m", ".", "%d", <<>>, 1, 2, 3),
    Format("%Y", cNian, "%m", cYue, "%d", <<Literal(cRi)>>, 1, 2, 3),
    Format("%m", "-", "%d", "-", "%Y", <<>>, 3, 1, 2),
    Format("%m", "/", "%d", "/", "%Y", <<>>, 3, 1, 2),
    Format("%m", ".", "%d", ".", "%Y", <<>>, 3, 1, 2),
    Format("%d", "-", "%m", "-", "%Y", <<>>, 3, 2, 1),
    Format("%d", "/", "%m", "/", "%Y", <<>>, 3, 2, 1),
    Format("%d", ".", "%m", ".", "%Y", <<>>, 3, 2, 1) >>

\* The list `formats` of parse_date, in its order.
Formats == <<
    Format("%Y", "-", "%m", "-", "%d", <<>>, 1, 2, 3),
    Format("%Y", "/", "%m", "/", "%d", <<>>, 1, 2, 3),
    Format("%Y", ".", "%m", ".", "%d", <<>>, 1, 2, 3),
    Format("%Y", cNian, "%m", cYue, "%d", <<Literal(cRi)>>, 1, 2, 3),
    Format("%d", "-", "%m", "-", "%Y", <<>>, 3, 2, 1),
    Format("%d", "/", "%m", "/", "%Y", <<>>, 3, 2, 1),
    Format("%d", ".", "%m", ".", "%Y", <<>>, 3, 2, 1),
    Format("%m", "-", "%d", "-", "%Y", <<>>, 3, 1, 2),
    Format("%m", "/", "%d", "/", "%Y", <<>>, 3, 1, 2),
    Format("%m", ".", "%d", ".", "%Y", <<>>, 3, 1, 2) >>

\* int() of a group of strptime: %d may hold a space before its digit.
IntOfGroup(g) == IntOf(SelectSeq(g, LAMBDA c : c \in DigitSet))

\* datetime.datetime.strptime(date_text, fmt).date(): the date, None for
\* ValueError (no match, unconverted data, or no such date).
StrpTimeFormat(text, fmt) ==
    LET r == AltMatch(fmt.pat, 1, text, 1)
    IN  IF ~r.ok \/ r.end # Len(text) + 1 THEN None
        ELSE LET year == IntOfGroup(r.groups[fmt.y])
                 month == IntOfGroup(r.groups[fmt.m])
                 day == IntOfGroup(r.groups[fmt.d])
             IN  IF DateTimeOk(year, month, day) THEN <<year, month, day>> ELSE None

\* re.findall(r'\d+', date_text): the runs of digits from left to right.
RECURSIVE DigitRunsFrom(_, _)
DigitRunsFrom(text, pos) ==
    IF pos > Len(text) THEN <<>>
    ELSE IF text[pos] \in DigitSet
    THEN LET n == RunLen(text, pos, DigitSet, Len(text))
         IN  <<SubSeq(text, pos, pos + n - 1)>> \o DigitRunsFrom(text, pos + n)
    ELSE DigitRunsFrom(text, pos + 1)

RECURSIVE StripZeros(_)
StripZeros(ds) == IF Len(ds) > 1 /\ ds[1] = "0" THEN StripZeros(Tail(ds)) ELSE ds

\* Whether int(ds) is above the largest C int (longer than its ten digits, or
\* ten digits that come after it).
ExceedsCInt(ds) ==
    LET z == StripZeros(ds)
    IN  \/ Len(z) > 10
        \/ /\ Len(z) = 10
           /\ \/ DigitValue(z[1]) > 2
              \/ DigitValue(z[1]) = 2 /\ IntOf(Tail(z)) > CIntMax - 2000000000

\* How a call of parse_date ends.  via is the number of the format that gave
\* the date, 11 for the digit groups; message is the text the ValueError of
\* parse_date carries.
Parsed(date, via) == [status |-> "ok", date |-> date, via |-> via, message |-> <<>>]

Raised(status, message) ==
    [status |-> status, date |-> None, via |-> 0, message |-> message]

\* The formats, tried in order from format i on.
RECURSIVE TryFormats(_, _)
TryFormats(text, i) ==
    IF i > Len(Formats) THEN None
    ELSE IF StrpTimeFormat(text, Formats[i]) # None
    THEN Some(Parsed(StrpTimeFormat(text, Formats[i]), i))
    ELSE TryFormats(text, i + 1)

\* The digit groups taken as year, month and day (after all formats failed).
FromDigitGroups(text) ==
    LET numbers == DigitRunsFrom(text, 1)
    IN  IF Len(numbers) >= 3
        THEN LET first == Len(numbers[1]) = 4
                 y == IF first THEN numbers[1] ELSE numbers[3]
                 m == numbers[2]
                 d == IF first THEN numbers[3] ELSE numbers[1]
             IN  IF ExceedsCInt(y) \/ ExceedsCInt(m) \/ ExceedsCInt(d)
                 THEN Raised("OverflowError", <<>>)
                 ELSE IF DateTimeOk(IntOf(y), IntOf(m), IntOf(d))
                 THEN Parsed(<<IntOf(y), IntOf(m), IntOf(d)>>, 11)
                 ELSE Raised("ValueError", text)
        ELSE Raised("ValueError", text)

ParseDate(text) ==
    IF TryFormats(text, 1) # None THEN TryFormats(text, 1)[1]
    ELSE FromDigitGroups(text)

(***************************************************************************)
(* Inputs of the parser: the texts typed.                                  *)
(***************************************************************************)
\* Fields printed year first and year last: real dates, days past the end of
\* the month, both fields up to 12, one above 12.
TypedFields ==
    { <<2024, 1, 15>>, <<2024, 5, 6>>, <<2024, 12, 13>>, <<2024, 2, 29>>,
      <<2023, 2, 29>>, <<2024, 2, 30>>, <<2023, 4, 31>>, <<2024, 13, 13>> }

\* "{year}-{month:02d}-{day:02d}"
IsoText(f) == Str(f[1]) \o <<"-">> \o Pad(f[2], 2) \o <<"-">> \o Pad(f[3], 2)

\* Three numbers printed with a separator, each with at least w1, w2 and w3
\* digits.
Joined(a, w1, b, w2, c, w3, sep) ==
    Pad(a, w1) \o <<sep>> \o Pad(b, w2) \o <<sep>> \o Pad(c, w3)

ChineseText(f) ==
    Pad(f[1], 4) \o <<cNian>> \o Str(f[2]) \o <<cYue>> \o Str(f[3]) \o <<cRi>>

\* The dates of the round trip: the calculator's dates and the ends of the
\* range of years, with years of one to four digits.
RoundTripDates ==
    SampleDates \cup
    { <<1, 12, 31>>, <<15, 1, 2>>, <<999, 1, 1>>, <<1000, 1, 1>>, <<9999, 12, 31>> }

StrictTexts ==
    { Joined(f[1], 4, f[2], 2, f[3], 2, sep) : f \in TypedFields, sep \in Separator }
    \cup { Joined(f[1], 4, f[2], 1, f[3], 1, "-") : f \in TypedFields }
    \cup { ChineseText(f) : f \in TypedFields }
    \cup { Joined(f[3], 2, f[2], 2, f[1], 4, sep) : f \in TypedFields, sep \in Separator }
    \cup { Joined(f[2], 2, f[3], 2, f[1], 4, sep) : f \in TypedFields, sep \in Separator }
    \cup { Joined(f[3], 1, f[2], 1, f[1], 4, "/") : f \in TypedFields }
    \cup { IsoText(f) : f \in RoundTripDates }

\* A character typed before or after a text.
ExtraChars == { "x", " ", "1" }

\* Texts that are no date in any format.
OddTexts ==
    { <<"1", "-", "2", "-", "3">>,
      <<"2", "0", "2", "4", "-", "1">>,
      <<"2", "0", "2", "4", "0", "1", "1", "5">>,
      <<"2", "0", "2", "4", "/", "1", "-", "5">>,
      <<"1", "-", "2", "-", "2", "0", "2", "4", "-", "5">>,
      <<"2", "0", "2", "4", "-", "0", "1", "-", " ", "5">>,
      <<" ", "5", "/", "0", "1", "/", "2", "0", "2", "4">>,
      <<"6", "9", "0", "1", "2", "3", "4", "5", "6", "7", "8", "9", "0",
        "-", "1", "-", "2">>,
      <<"2", "1", "4", "7", "4", "8", "3", "6", "4", "7", "-", "1", "-", "2">>,
      <<"A", "B", "C">>,
      <<>> }

TypedTexts ==
    StrictTexts
    \cup { <<c>> \o t : c \in ExtraChars, t \in StrictTexts }
    \cup { t \o <<c>> : c \in ExtraChars, t \in StrictTexts }
    \cup OddTexts

(***************************************************************************)
(* The parser's operations.                                                *)
(***************************************************************************)
InitParse ==
    /\ date_text = <<>>
    /\ date_obj = Raised("none", <<>>)
    /\ parse_pc = "idle"

\* A date text is typed and handed to parse_date.
TypeDateText ==
    /\ parse_pc = "idle"
    /\ date_text' \in TypedTexts
    /\ parse_pc' = "called"
    /\ UNCHANGED <<date_obj, calc_vars, rec_vars, store_vars, clock_vars, scan_vars>>

\* parse_date, from the loop over the formats to its return or raise.
ParseDateCall ==
    /\ parse_pc = "called"
    /\ date_obj' = ParseDate(date_text)
    /\ parse_pc' = "returned"
    /\ UNCHANGED <<date_text, calc_vars, rec_vars, store_vars, clock_vars, scan_vars>>

\* The caller has the date or the exception.
ParseReturn ==
    /\ parse_pc = "returned"
    /\ date_text' = <<>>
    /\ date_obj' = Raised("none", <<>>)
    /\ parse_pc' = "idle"
    /\ UNCHANGED <<calc_vars, rec_vars, store_vars, clock_vars, scan_vars>>

NextParse ==
    \/ TypeDateText
    \/ ParseDateCall
    \/ ParseReturn

(***************************************************************************)
(* The camera scanners: BarcodeScanner and OCRProcessor.  Both keep the    *)
(* same fields and schedule their frame handler on the Kivy Clock, whose   *)
(* events run one at a time on the main thread.                            *)
(***************************************************************************)
Scanners == { "barcode", "ocr" }

\* kivy.utils.platform: the Android build and a desktop build.
Platforms == { "android", "linux" }

\* How many times start_camera is called on one scanner.
MaxStarts == 2

\* A scanner object after __init__.  image_reader is no attribute of the
\* object until _start_camera_android assigns it.
NewScanner ==
    [ camera |-> "None", callback |-> "None", is_scanning |-> FALSE,
      image_widget |-> "None", clock_event |-> None, image_reader |-> "unset" ]

\* An event returned by Clock.schedule_interval.
ClockEvent(s, id) == [ scanner |-> s, id |-> id ]

\* Clock.unschedule(self.clock_event)
Unschedule(clock, s, event) ==
    IF event = None THEN clock ELSE clock \ { ClockEvent(s, event[1]) }

\* camera_preview.clear_widgets(): the image widgets now in the preview of
\* the scan screen lose their parent.
ClearWidgets(scs) ==
    [ s \in Scanners |->
        IF scs[s].image_widget = "shown"
            THEN [ scs[s] EXCEPT !.image_widget = "detached" ]
            ELSE scs[s] ]

\* The frame handler's steps on a detection that come before the callback:
\* is_scanning = False, then Clock.unschedule(self.clock_event).
DetectedStillScanning(sc) == sc

Detected(sc) == [ sc EXCEPT !.is_scanning = FALSE ]

\* stop_camera, on the fields of one scanner.  On Android the method reads
\* image_reader, which raises AttributeError when start_camera never ran.
StopCameraRaises(sc) == platform = "android" /\ sc.image_reader = "unset"

StopCameraFields(sc) ==
    LET released == [ sc EXCEPT !.is_scanning = FALSE, !.camera = "None" ]
        closed ==
            IF platform = "android" /\ sc.image_reader = "reader"
                THEN [ released EXCEPT !.image_reader = "None" ]
                ELSE released
    IN  IF StopCameraRaises(sc) THEN released
        ELSE IF sc.image_widget = "shown"
            THEN [ closed EXCEPT !.image_widget = "None" ]
            ELSE closed

\* The texts the OCR engine reads from a frame.
FrameTexts ==
    { <<"A", "B", "C">>,
      <<"2", "0", "2", "4", "-", "0", "1", "-", "1", "5">>,
      <<"1", "5", "/", "0", "1", "/", "2", "0", "2", "4">> }

\* What a frame holds for a scanner: a barcode or none, a date text or none.
FrameFindings(s) ==
    IF s = "barcode" THEN { None } \cup { Some(b) : b \in Barcodes }
    ELSE { ExtractDate(t) : t \in FrameTexts }

InitScanners ==
    /\ scanners = [ s \in Scanners |-> NewScanner ]
    /\ kivy_clock = {}
    /\ camera_opening = {}
    /\ scan_log = [ s \in Scanners |->
                      [ starts |-> 0, callbacks |-> 0, delivered |-> None,
                        last_tick |-> "none", stopped |-> FALSE,
                        after_stop |-> FALSE ] ]
    /\ app_running = TRUE

\* start_camera(callback) with _start_camera_android or
\* _start_camera_desktop.  On a desktop the camera may fail to open, and the
\* method then returns with is_scanning set and nothing scheduled.
StartCamera(s) ==
    /\ app_running
    /\ scan_log[s].starts < MaxStarts
    /\ LET id == scan_log[s].starts + 1
           started == [ scanners[s] EXCEPT !.callback = "set",
                                           !.is_scanning = TRUE ]
           shown(sc) == [ ClearWidgets(scanners) EXCEPT ![s] =
                            [ sc EXCEPT !.image_widget = "shown",
                                        !.clock_event = Some(id) ] ]
       IN  /\ scan_log' = [ scan_log EXCEPT ![s] =
                              [ starts |-> id, callbacks |-> 0,
                                delivered |-> None, last_tick |-> "none",
                                stopped |-> FALSE, after_stop |-> FALSE ] ]
           /\ IF platform = "android"
                THEN /\ scanners' =
                            shown([ started EXCEPT !.image_reader = "reader" ])
                     /\ camera_opening' = camera_opening \cup { s }
                     /\ kivy_clock' = kivy_clock \cup { ClockEvent(s, id) }
                ELSE \E opened \in BOOLEAN :
                        /\ camera_opening' = camera_opening
                        /\ IF opened
                             THEN /\ scanners' =
                                       shown([ started EXCEPT !.camera = "opened" ])
                                  /\ kivy_clock' =
                                       kivy_clock \cup { ClockEvent(s, id) }
                             ELSE /\ scanners' = [ scanners EXCEPT ![s] =
                                       [ started EXCEPT !.camera = "unopened" ] ]
                                  /\ kivy_clock' = kivy_clock
    /\ UNCHANGED <<platform, app_running>>
    /\ UNCHANGED <<calc_vars, rec_vars, store_vars, clock_vars, parse_vars>>

\* camera_state_callback: the camera service answers openCamera.
CameraStateCallback(s) ==
    /\ app_running
    /\ s \in camera_opening
    /\ camera_opening' = camera_opening \ { s }
    /\ \E state_opened \in BOOLEAN :
         scanners' = IF state_opened
                       THEN [ scanners EXCEPT ![s].camera = "opened" ]
                       ELSE scanners
    /\ UNCHANGED <<platform, kivy_clock, scan_log, app_running>>
    /\ UNCHANGED <<calc_vars, rec_vars, store_vars, clock_vars, parse_vars>>

\* The frame handler returns at once: not scanning, or nothing to read from.
TickIdle(sc) ==
    \/ ~sc.is_scanning
    \/ IF platform = "android" THEN sc.image_reader # "reader"
                               ELSE sc.camera = "None"

\* _process_frame_android / _process_frame_desktop, run by one scheduled
\* event.  Only an opened camera gives frames.  With a finding in the
\* frame the handler stops scanning,
\* unschedules self.clock_event and calls the callback.  The barcode
\* callback is ScanScreen.on_barcode_detected: for a known product it stops
\* the barcode scanner and calls start_camera on ScanScreen.ocr_processor,
\* which that object does not have; the exception leaves the handler.
ProcessFrame(s, event) ==
    /\ app_running
    /\ event \in kivy_clock
    /\ event.scanner = s
    /\ LET sc == scanners[s]
           log(tick) == [ scan_log EXCEPT ![s].last_tick = tick ]
       IN  IF TickIdle(sc)
             THEN /\ scan_log' = log("idle")
                  /\ UNCHANGED <<scanners, kivy_clock, app_running>>
           ELSE \E frame_read \in BOOLEAN :
             IF ~frame_read \/ sc.camera # "opened"
               THEN /\ scan_log' = log("no_frame")
                    /\ UNCHANGED <<scanners, kivy_clock, app_running>>
             ELSE \E found \in FrameFindings(s), known \in BOOLEAN :
               IF found = None
                 THEN /\ scan_log' = log("nothing")
                      /\ UNCHANGED <<scanners, kivy_clock, app_running>>
               ELSE
                 LET detected == Detected(sc)
                     stops == s = "barcode" /\ known
                     raises ==
                        stops /\ "start_camera" \notin MethodsOf(OCRProcessorAlias)
                 IN  /\ scanners' = [ scanners EXCEPT ![s] =
                            IF stops THEN StopCameraFields(detected)
                                     ELSE detected ]
                     /\ kivy_clock' = Unschedule(kivy_clock, s, sc.clock_event)
                     /\ scan_log' = [ scan_log EXCEPT ![s] =
                            [ @ EXCEPT !.callbacks = @ + 1,
                                       !.delivered = found,
                                       !.after_stop = scan_log[s].stopped,
                                       !.stopped = @ \/ (stops /\ ~raises),
                                       !.last_tick = IF raises THEN "raised"
                                                     ELSE "delivered" ] ]
                     /\ app_running' = ~raises
    /\ UNCHANGED <<platform, camera_opening>>
    /\ UNCHANGED <<calc_vars, rec_vars, store_vars, clock_vars, parse_vars>>

\* stop_camera, called from the screen.  scan_log notes that the call
\* returned.
StopCamera(s) ==
    /\ app_running
    /\ scanners' = [ scanners EXCEPT ![s] = StopCameraFields(scanners[s]) ]
    /\ kivy_clock' = Unschedule(kivy_clock, s, scanners[s].clock_event)
    /\ app_running' = ~StopCameraRaises(scanners[s])
    /\ scan_log' = [ scan_log EXCEPT ![s].stopped =
                        @ \/ ~StopCameraRaises(scanners[s]) ]
    /\ UNCHANGED <<platform, camera_opening>>
    /\ UNCHANGED <<calc_vars, rec_vars, store_vars, clock_vars, parse_vars>>

NextScan ==
    \E s \in Scanners :
        \/ StartCamera(s)
        \/ CameraStateCallback(s)
        \/ (\E event \in kivy_clock : ProcessFrame(s, event))
        \/ StopCamera(s)

\* The calculator reads only the date of the clock; the clock stands still.
CalcInit ==
    /\ InitCalc
    /\ InitParse
    /\ InitRec
    /\ InitStore
    /\ today \in ClockDates
    /\ InitScanners
    /\ platform = "android"
    /\ tod = 0

SpecCalc == CalcInit /\ [][NextCalc]_vars

\* The recognizer does not read the clock.
RecInit ==
    /\ InitRec
    /\ InitParse
    /\ InitCalc
    /\ InitStore
    /\ today = <<2024, 1, 15>>
    /\ InitScanners
    /\ platform = "android"
    /\ tod = 0

SpecRec == RecInit /\ [][NextRec]_vars

StoreInit ==
    /\ InitStore
    /\ InitParse
    /\ InitCalc
    /\ InitRec
    /\ today = ClockStart
    /\ InitScanners
    /\ platform = "android"
    /\ tod = 0

SpecStore == StoreInit /\ [][NextStore]_vars

ParseInit ==
    /\ InitParse
    /\ InitCalc
    /\ InitRec
    /\ InitStore
    /\ today = ClockStart
    /\ InitScanners
    /\ platform = "android"
    /\ tod = 0

SpecParse == ParseInit /\ [][NextParse]_vars

\* The products table starts empty.
ProductsInit ==
    /\ InitStore
    /\ InitParse
    /\ InitCalc
    /\ InitRec
    /\ InitScanners
    /\ platform = "android"
    /\ today = ClockStart
    /\ tod = 0

SpecProducts == ProductsInit /\ [][NextProducts]_vars

\* The phone's tables start empty; the clock stands still.
DbInit ==
    /\ InitStore
    /\ InitParse
    /\ InitCalc
    /\ InitRec
    /\ InitScanners
    /\ platform = "android"
    /\ today = ClockStart
    /\ tod = 0

SpecDb == DbInit /\ [][NextDb]_vars

(***************************************************************************)
(* The status classes: tables of records whose expiry dates lie on both    *)
(* sides of the class boundaries, read by get_statistics and               *)
(* filter_products while time passes.                                      *)
(***************************************************************************)
\* Expiry dates around today and around a week from today.
StatusExpiryDates ==
    { AddDays(ClockStart, k) : k \in { 0 - 1, 0, 1, 7, 8 } }

\* The names of the products of a table, one per row.
StatusNames == << "milk", "tea", "juice", "rice" >>

\* The row add_product_record writes for the i-th product and an expiry date.
StatusRow(i, expiry) ==
    [ barcode |-> "6901", name |-> StatusNames[i],
      production_date |-> StrfTime(AddDays(ClockStart, 0 - 1)),
      expiry_date |-> StrfTime(expiry),
      days_remaining |-> DaysBetween(expiry, ClockStart), synced |-> 0 ]

StatusTables ==
    UNION { { [ i \in 1..n |-> StatusRow(i, expiries[i]) ] :
                expiries \in [ 1..n -> StatusExpiryDates ] } :
            n \in 0..MaxRecords }

NextStatus ==
    \/ GetStatistics
    \/ FilterProducts
    \/ Tick

StatusInit ==
    /\ product_records \in StatusTables
    /\ server_records = <<>>
    /\ last_op = "init"
    /\ products = {}
    /\ committed = Commit(product_records, products)
    /\ returned = Returned("none", <<>>, None)
    /\ InitParse
    /\ InitCalc
    /\ InitRec
    /\ InitScanners
    /\ platform = "android"
    /\ today = ClockStart
    /\ tod = 0

SpecStatus == StatusInit /\ [][NextStatus]_vars

\* The scanners run on either platform.
ScanInit ==
    /\ InitScanners
    /\ platform \in Platforms
    /\ InitParse
    /\ InitCalc
    /\ InitRec
    /\ InitStore
    /\ today = ClockStart
    /\ tod = 0

SpecScan == ScanInit /\ [][NextScan]_vars

(***************************************************************************)
(* Claims about the calculator, checked under SpecCalc.                    *)
(***************************************************************************)
\* A call of calculate_expiry_date with a production date has returned.
Calculated == calc_pc = "calculated" /\ production_date # None

\* C1: calculate_expiry_date follows the precedence shelfLifeDays, then
\* shelfLifeMonths, then the 180-day default: when shelfLifeDays is present the
\* expiry date is production + shelfLifeDays days even if shelfLifeMonths is
\* present too; otherwise, when shelfLifeMonths is present, it is production +
\* 30 * shelfLifeMonths days; and only when neither is present it is production
\* + 180 days. Stated for shelf lives of at least 1, so that a shelf life of 0
\* (C4) plays no part. (The function takes no explicit expiry date, so that
\* part of the precedence has no input to range over.)
C1_Precedence ==
    (/\ Calculated
     /\ shelf_life_days # None => shelf_life_days[1] >= 1
     /\ shelf_life_months # None => shelf_life_months[1] >= 1)
    => expiry_date =
            IF shelf_life_days # None
                THEN AddDays(production_date, shelf_life_days[1])
            ELSE IF shelf_life_months # None
                THEN AddDays(production_date, 30 * shelf_life_months[1])
            ELSE AddDays(production_date, 180)

\* C2: when only shelfLifeMonths = m >= 1 is present, the expiry date is a real
\* calendar date that lies exactly 30 * m days after the production date,
\* whatever month end, year end or leap-year February lies in between.
C2_ThirtyDayMonths ==
    (/\ Calculated
     /\ shelf_life_days = None
     /\ shelf_life_months # None
     /\ shelf_life_months[1] >= 1)
    => /\ expiry_date # None
       /\ DateTimeOk(expiry_date[1], expiry_date[2], expiry_date[3])
       /\ DaysBetween(expiry_date, production_date) = 30 * shelf_life_months[1]

\* C2, witness: one month from 2024-01-31 ends on 2024-03-01, past the leap-year
\* February, where calendar-month addition would give 2024-02-29.
C2_Witness ==
    /\ Calculated
    /\ production_date = <<2024, 1, 31>>
    /\ shelf_life_months = Some(1)
    /\ shelf_life_days = None
    /\ expiry_date = <<2024, 3, 1>>
    /\ expiry_date # AddCalendarMonths(production_date, 1)

\* C3, as stated: production 2024-01-15 with shelfLifeMonths = 12 and nothing
\* else yields production + 360 days, and that date is 2025-01-10.
C3_AsStated ==
    (/\ Calculated
     /\ production_date = <<2024, 1, 15>>
     /\ shelf_life_months = Some(12)
     /\ shelf_life_days = None)
    => /\ DaysBetween(expiry_date, production_date) = 360
       /\ expiry_date = <<2025, 1, 10>>

\* C3, amended: production 2024-01-15 with shelfLifeMonths = 12 and nothing else
\* yields production + 360 days, and that date is 2025-01-09 (2024 has 366 days).
C3_Amended ==
    (/\ Calculated
     /\ production_date = <<2024, 1, 15>>
     /\ shelf_life_months = Some(12)
     /\ shelf_life_days = None)
    => /\ DaysBetween(expiry_date, production_date) = 360
       /\ expiry_date = <<2025, 1, 9>>

\* C3, witness: the call of the example has returned.
C3_Witness ==
    /\ Calculated
    /\ production_date = <<2024, 1, 15>>
    /\ shelf_life_months = Some(12)
    /\ shelf_life_days = None
    /\ expiry_date # None

\* C4: with shelfLifeDays = n present and no shelfLifeMonths, for every n >= 0,
\* n = 0 included, the expiry date is the production date plus n days; production
\* 2024-01-15 with n = 180 gives 2024-07-13, which is 180 days after a clock
\* date of 2024-01-15.
C4_DaysAdded ==
    /\ (/\ Calculated
        /\ shelf_life_months = None
        /\ shelf_life_days # None
        /\ shelf_life_days[1] >= 0)
       => expiry_date = AddDays(production_date, shelf_life_days[1])
    /\ (/\ Calculated
        /\ production_date = <<2024, 1, 15>>
        /\ shelf_life_months = None
        /\ shelf_life_days = Some(180))
       => /\ expiry_date = <<2024, 7, 13>>
          /\ GetDaysRemaining(expiry_date, <<2024, 1, 15>>) = 180

\* C5: get_days_remaining returns the signed whole-day difference between the
\* expiry date and the clock's date (positive before the expiry date, 0 on it,
\* negative after it; -4 for 2024-01-01 seen on 2024-01-05), and a returned 0
\* always means that the expiry date is today, never that the call failed.
C5_SignedDifference ==
    calc_pc = "remaining" =>
        /\ remaining_arg # None =>
              /\ remaining = DaysBetween(remaining_arg, today)
              /\ (remaining > 0) = (ToOrdinal(remaining_arg) > ToOrdinal(today))
              /\ (remaining = 0) = (remaining_arg = today)
        /\ (remaining_arg = <<2024, 1, 1>> /\ today = <<2024, 1, 5>>)
              => remaining = -4
        /\ remaining = 0 => remaining_arg = today

(***************************************************************************)
(* Claims about the recognizer, checked under SpecRec.                     *)
(***************************************************************************)
\* A real date of the Gregorian calendar, by the month lengths.
RealGregorianDate(y, m, d) ==
    /\ m \in 1..12
    /\ d >= 1
    /\ d <= CASE m = 2 -> (IF y % 4 = 0 /\ (y % 100 # 0 \/ y % 400 = 0) THEN 29 ELSE 28)
              [] m \in {4, 6, 9, 11} -> 30
              [] OTHER -> 31

\* C7: the Candidate Extractor emits no date candidate that is not a real
\* Gregorian date.  A match of a year, a month and a day whose month is outside
\* 1..12 or whose day is past the end of that month appends nothing, and no
\* candidate of its fragment carries its year and month with another day (the
\* day is not replaced by a valid one); a match whose fields are a real date
\* appends a candidate with exactly these fields, also when an earlier match
\* of the pass was rejected; and the candidates returned are what the matches
\* appended.
C7_NoInvalidCandidate ==
    rec_pc = "recognized" =>
        /\ \A k \in 1..Len(matches) :
              Len(matches[k].match) = 3 =>
                  LET y == IntOf(matches[k].match[1])
                      m == IntOf(matches[k].match[2])
                      d == IntOf(matches[k].match[3])
                  IN  /\ ~RealGregorianDate(y, m, d) =>
                            /\ matches[k].appended = <<>>
                            /\ \A i \in 1..Len(dates) :
                                  (dates[i].text = matches[k].text /\ dates[i].date # None)
                                      => ~(dates[i].date[1] = y /\ dates[i].date[2] = m)
                      /\ (RealGregorianDate(y, m, d) /\ y >= 1) =>
                            /\ matches[k].appended # <<>>
                            /\ matches[k].appended[1].date = <<y, m, d>>
        /\ \A i \in 1..Len(dates) :
              dates[i].date # None =>
                  RealGregorianDate(dates[i].date[1], dates[i].date[2], dates[i].date[3])
        /\ dates = Appended(matches, 1)

\* C8: among the candidates of one role the Disambiguator returns the greatest
\* by confidence, then by length of the matched text: no candidate of the
\* returned candidate's role has a higher confidence, or the same confidence
\* and a longer text (of two candidates of confidence 0.8 and texts of length
\* 10 and 14, the one of length 14 is returned wherever it stands in the list).
C8_LongerTextWins ==
    (rec_pc = "recognized" /\ best_date # None) =>
        \A i \in 1..Len(dates) :
            dates[i].type = best_date[1].type =>
                \/ dates[i].confidence < best_date[1].confidence
                \/ /\ dates[i].confidence = best_date[1].confidence
                   /\ Len(dates[i].text) <= Len(best_date[1].text)

\* The two fragments of the pipeline example: sheng-chan-ri-qi, full-width
\* colon, 2024nian1yue15ri; and bao-zhi-qi, full-width colon, 12 ge yue.
PipelineExample ==
    << <<cSheng, cChan, cRi, cQi, cFullColon,
         "2", "0", "2", "4", cNian, "1", cYue, "1", "5", cRi>>,
       <<cBao, cZhiQuality, cQi, cFullColon, "1", "2", cGe, cYue>> >>

\* C9: from the two fragments of the example the pipeline resolves a production
\* date and a shelf life: recognition returns the production date 2024-01-15,
\* the candidates hold a shelf life of 12 months, and the expiry date computed
\* from the two is 2025-01-10.
C9_Pipeline ==
    (rec_pc = "recognized" /\ texts = PipelineExample) =>
        /\ best_date # None
        /\ best_date[1].date = <<2024, 1, 15>>
        /\ \E i \in 1..Len(dates) :
              /\ dates[i].type = "shelf_life"
              /\ dates[i].shelf_life_months = Some(12)
              /\ CalculateExpiryDate(best_date[1].date, dates[i].shelf_life_months, None)
                    = <<2025, 1, 10>>

\* C10: every candidate carries the role of the pattern that matched it and the
\* one value shape of that role: the pattern labelled bao-zhi-qi-zhi (pattern
\* 9) gives an expiry-date candidate with a date, the bare and the
\* production-labelled patterns (1 to 7) give a production-date candidate with
\* a date, the shelf-life pattern (8) gives a shelf-life candidate with only
\* the month count.
C10_RoleAndShape ==
    rec_pc = "recognized" =>
        \A k \in 1..Len(matches) :
            matches[k].appended # <<>> =>
                LET c == matches[k].appended[1]
                    p == matches[k].pattern
                IN  /\ p = 9 => /\ c.type = "expiry_date"
                                /\ c.date # None
                                /\ c.shelf_life_months = None
                    /\ p \in 1..7 => /\ c.type = "production_date"
                                     /\ c.date # None
                                     /\ c.shelf_life_months = None
                    /\ p = 8 => /\ c.type = "shelf_life"
                                /\ c.date = None
                                /\ c.shelf_life_months # None

(***************************************************************************)
(* Claims about the stores, checked under SpecStore.                       *)
(***************************************************************************)
\* C6: every recomputation of the days remaining agrees with the pure
\* function: after the refresh of the stored list every record's
\* days_remaining is the whole-day difference between its expiry date and the
\* current date, and so is the days_remaining of the record the server's
\* add_records has just stored, whatever the expiry date and the time of day.
C6_RecomputationIsDateDifference ==
    /\ last_op = "refresh" =>
          \A i \in 1..Len(product_records) :
              product_records[i].days_remaining =
                  GetDaysRemaining(StrpTime(product_records[i].expiry_date), today)
    /\ (last_op = "sync_stored" /\ server_records # <<>>) =>
          server_records[Len(server_records)].days_remaining =
              GetDaysRemaining(StrpTime(server_records[Len(server_records)].expiry_date),
                               today)

\* The confidence the loop body gives a match, by the number of its fields
\* (in tenths): 0.8 for year, month and day, 0.6 for year and month, 0.7 for a
\* month count.
BaseConfidence(match) ==
    IF Len(match) = 3 THEN 8 ELSE IF Len(match) = 2 THEN 6 ELSE 7

\* C11: the confidence of a candidate is the base confidence of its pattern
\* times the OCR confidence of its fragment (both in tenths, so ten times the
\* candidate's confidence is their product); and of two fragments matched by
\* the same pattern, the one read with the lower OCR confidence does not get
\* the higher candidate confidence.
C11_ConfidenceIsProduct ==
    (rec_pc = "recognized" /\ Len(texts) = Len(EasyOcrTexts(results))) =>
        /\ \A k \in 1..Len(matches), r \in 1..Len(results) :
              (/\ matches[k].appended # <<>>
               /\ results[r].confidence > OcrThreshold
               /\ results[r].text = matches[k].text)
                  => matches[k].appended[1].confidence * 10
                        = BaseConfidence(matches[k].match) * results[r].confidence
        /\ \A k \in 1..Len(matches), j \in 1..Len(matches),
              r \in 1..Len(results), q \in 1..Len(results) :
              (/\ matches[k].appended # <<>> /\ matches[j].appended # <<>>
               /\ matches[k].pattern = matches[j].pattern
               /\ results[r].text = matches[k].text
               /\ results[q].text = matches[j].text
               /\ results[r].text # results[q].text
               /\ results[r].confidence > OcrThreshold
               /\ results[q].confidence > OcrThreshold
               /\ results[r].confidence < results[q].confidence)
                  => matches[k].appended[1].confidence
                        <= matches[j].appended[1].confidence

\* The patterns by kind, as numbered in Patterns: the date patterns with a
\* label before the date, the bare dates of year, month and day, the bare
\* dates of year and month, and the month count of a shelf life.
LabelledPatterns == {5, 6, 7, 9}

BareFullPatterns == {1, 3}

BarePartialPatterns == {2, 4}

MonthCountPatterns == {8}

\* C12: the confidences are strictly ordered by the kind of pattern: a
\* candidate of a labelled pattern has a strictly higher confidence than one
\* of a bare numeric pattern (so no bare candidate ties with a labelled one),
\* a candidate of a bare date of year, month and day has a strictly higher
\* confidence than one of the month-count pattern, and no candidate of a
\* year-month or month-count pattern outranks one of a bare full date.
C12_BaseConfidenceOrder ==
    rec_pc = "recognized" =>
        \A k \in 1..Len(matches), j \in 1..Len(matches) :
            (matches[k].appended # <<>> /\ matches[j].appended # <<>>) =>
                LET ck == matches[k].appended[1].confidence
                    cj == matches[j].appended[1].confidence
                    pk == matches[k].pattern
                    pj == matches[j].pattern
                IN  /\ (pk \in LabelledPatterns
                        /\ pj \in BareFullPatterns \cup BarePartialPatterns) => ck > cj
                    /\ (pk \in BareFullPatterns /\ pj \in MonthCountPatterns) => ck > cj
                    /\ (pk \in BareFullPatterns
                        /\ pj \in BarePartialPatterns \cup MonthCountPatterns) => cj <= ck

\* The rearrangements of a sequence.
PermutationsOf(seq) ==
    { [i \in 1..Len(seq) |-> seq[f[i]]] :
        f \in { g \in [1..Len(seq) -> 1..Len(seq)] :
                  \A a, b \in 1..Len(seq) : a # b => g[a] # g[b] } }

\* Two results of recognition name the same winner: both nothing, or the same
\* role, parsed value and confidence.
SameWinner(a, b) ==
    IF a = None \/ b = None THEN a = b
    ELSE /\ a[1].type = b[1].type
         /\ a[1].date = b[1].date
         /\ a[1].shelf_life_months = b[1].shelf_life_months
         /\ a[1].confidence = b[1].confidence

\* C13: the result of recognition does not depend on the order of the
\* fragments: recognition of any rearrangement of the fragments of the pass
\* returns the same winner (role, parsed value, confidence) as the pass did.
C13_OrderIndependent ==
    rec_pc = "recognized" =>
        \A p \in PermutationsOf(texts) : SameWinner(RecognizeDateOf(p), best_date)

\* C14: recognition returns nothing when there are no fragments or no
\* candidates, and it returns a date only when a date pattern (one with a year
\* group) matched a fragment with these fields: never a date made up from a
\* fragment that holds none.
C14_NotFoundNotGuessed ==
    rec_pc = "recognized" =>
        /\ texts = <<>> => best_date = None
        /\ dates = <<>> => best_date = None
        /\ (best_date # None /\ best_date[1].date # None) =>
              \E k \in 1..Len(matches) :
                  /\ matches[k].pattern \notin MonthCountPatterns
                  /\ matches[k].appended = best_date
                  /\ IntOf(matches[k].match[1]) = best_date[1].date[1]
                  /\ IntOf(matches[k].match[2]) = best_date[1].date[2]

\* C15: extraction never raises.  In every pass, whatever the fields matched
\* (year 0000, month 00 or above 12, day 00 or above 31, a count of 0), the
\* body of the loop raises nothing but the ValueError the loop catches, a match
\* appends nothing exactly when that ValueError was raised, every candidate
\* with a date holds a real date, and the pass returns the candidates of all
\* the matches of all the fragments.
C15_ExtractionNeverRaises ==
    rec_pc = "recognized" =>
        /\ \A k \in 1..Len(matches) :
              /\ BodyException(matches[k].match) \in {"none", "ValueError"}
              /\ (BodyException(matches[k].match) = "ValueError")
                    <=> (matches[k].appended = <<>>)
        /\ \A i \in 1..Len(dates) :
              dates[i].date # None =>
                  RealGregorianDate(dates[i].date[1], dates[i].date[2], dates[i].date[3])
        /\ matches = MatchesOfTexts(texts, 1)
        /\ dates = Appended(matches, 1)

\* C15, witness: a pass in which a match with year 0000 and a match with a day
\* above 31 were skipped, and a later match appended a candidate.
C15_Witness ==
    /\ rec_pc = "recognized"
    /\ \E k \in 1..Len(matches), i \in 1..Len(matches), j \in 1..Len(matches) :
          /\ k < i /\ i < j
          /\ Len(matches[k].match) = 3 /\ IntOf(matches[k].match[1]) = 0
          /\ matches[k].appended = <<>>
          /\ Len(matches[i].match) = 3 /\ IntOf(matches[i].match[3]) > 31
          /\ matches[i].appended = <<>>
          /\ matches[j].appended # <<>>

(***************************************************************************)
(* Claims about the date text parser, checked under SpecParse.             *)
(***************************************************************************)
\* The formats in the order the claims name them: which group is the year,
\* the month and the day, and the separators.
StrictFormatMatches(text) == \E i \in 1..Len(Formats) : StrpTimeFormat(text, Formats[i]) # None

\* The date comes from the first format, in the list's order, that takes the
\* whole text and gives a real date.
FirstFormatWins ==
    /\ StrictFormatMatches(date_text) => date_obj.via \in 1..Len(Formats)
    /\ date_obj.via \in 1..Len(Formats) =>
          /\ date_obj.status = "ok"
          /\ date_obj.date = StrpTimeFormat(date_text, Formats[date_obj.via])
          /\ \A j \in 1..(date_obj.via - 1) : StrpTimeFormat(date_text, Formats[j]) = None
    /\ \A i \in 1..Len(Formats) :
          /\ Formats[i].y = (IF i <= 4 THEN 1 ELSE 3)
          /\ Formats[i].m = (IF i <= 4 THEN 2 ELSE IF i <= 7 THEN 2 ELSE 1)
          /\ Formats[i].d = (IF i <= 4 THEN 3 ELSE IF i <= 7 THEN 1 ELSE 2)

\* a/b/YYYY with a and b up to 12 is read day first, with a up to 12 and b
\* above 12 month first; "15/01/2024" is 15 January 2024.
AmbiguousReadDayFirst ==
    /\ \A a \in 1..12, b \in 1..31, y \in {2024}, sep \in Separator :
          (date_text = Joined(a, 2, b, 2, y, 4, sep) /\ DateTimeOk(y, IF b <= 12 THEN b ELSE a,
                                                                   IF b <= 12 THEN a ELSE b))
              => /\ date_obj.status = "ok"
                 /\ date_obj.date = (IF b <= 12 THEN <<y, b, a>> ELSE <<y, a, b>>)
    /\ date_text = <<"1", "5", "/", "0", "1", "/", "2", "0", "2", "4">>
          => (date_obj.status = "ok" /\ date_obj.date = <<2024, 1, 15>>)

\* A text a strict format takes, with one more character before or after it.
WithExtraCharacter(text, chars) ==
    \E t \in StrictTexts, c \in chars :
        /\ StrictFormatMatches(t)
        /\ text = <<c>> \o t \/ text = t \o <<c>>

\* C16, as stated: the first format in the fixed order that takes the whole
\* text and gives a real date wins; a text with an extra character before or
\* after it matches no strict format; a/b/YYYY is read day first when both are
\* up to 12, month first when only a is; "15/01/2024" gives 2024-01-15.
C16_AsStated ==
    parse_pc = "returned" =>
        /\ FirstFormatWins
        /\ AmbiguousReadDayFirst
        /\ WithExtraCharacter(date_text, {"x", " "}) => ~StrictFormatMatches(date_text)

\* A space before a day of one digit: %d of strptime takes the two as the
\* day.
SpaceBeforeDay(text) ==
    /\ Len(text) >= 3
    /\ text[1] = " "
    /\ text[2] \in NonZeroDigits
    /\ text[3] \in Separator

\* C16, amended: as stated, but a text that starts with a space before a day
\* of one digit is taken by the day-first formats, with the date of the text
\* without the space.
C16_Amended ==
    parse_pc = "returned" =>
        /\ FirstFormatWins
        /\ AmbiguousReadDayFirst
        /\ (WithExtraCharacter(date_text, {"x", " "}) /\ ~SpaceBeforeDay(date_text))
              => ~StrictFormatMatches(date_text)
        /\ (SpaceBeforeDay(date_text) /\ StrictFormatMatches(date_text)) =>
              /\ date_obj.via \in {5, 6, 7}
              /\ date_obj.date = ParseDate(Tail(date_text)).date

\* C16, witness: a text of two fields up to 12 before the year was parsed with
\* a day-first format although a month-first format takes it too.
C16_Witness ==
    /\ parse_pc = "returned"
    /\ date_text = Joined(6, 2, 5, 2, 2024, 4, "/")
    /\ date_obj.via = 6
    /\ date_obj.date = <<2024, 5, 6>>
    /\ StrpTimeFormat(date_text, Formats[9]) = <<2024, 6, 5>>

\* C17: for every real date, parse_date of "{year}-{month:02d}-{day:02d}"
\* succeeds and returns that date, years of fewer than four digits included.
C17_RoundTrip ==
    parse_pc = "returned" =>
        \A f \in RoundTripDates :
            date_text = IsoText(f) => (date_obj.status = "ok" /\ date_obj.date = f)

\* C18: when the digit groups give the date, its year is a group of exactly
\* four digits and its month and day are the two other groups of the first
\* three, in their order; and "1-2-3", which has no group of four digits, is
\* not parsed to a date.
C18_FallbackYearHasFourDigits ==
    parse_pc = "returned" =>
        /\ date_obj.via = 11 =>
              LET numbers == DigitRunsFrom(date_text, 1)
              IN  \/ /\ Len(numbers[1]) = 4
                     /\ date_obj.date = <<IntOf(numbers[1]), IntOf(numbers[2]), IntOf(numbers[3])>>
                  \/ /\ Len(numbers[1]) # 4
                     /\ Len(numbers[3]) = 4
                     /\ date_obj.date = <<IntOf(numbers[3]), IntOf(numbers[2]), IntOf(numbers[1])>>
        /\ date_text = <<"1", "-", "2", "-", "3">> => date_obj.status # "ok"

\* The fields printed in a text are no date, however a format reads them.
PrintsNoDate(text) ==
    \E f \in TypedFields :
        \/ /\ ~RealGregorianDate(f[1], f[2], f[3])
           /\ \/ \E sep \in Separator : text = Joined(f[1], 4, f[2], 2, f[3], 2, sep)
              \/ text = Joined(f[1], 4, f[2], 1, f[3], 1, "-")
              \/ text = ChineseText(f)
        \/ /\ ~RealGregorianDate(f[1], f[2], f[3])
           /\ ~RealGregorianDate(f[1], f[3], f[2])
           /\ \E sep \in Separator :
                 \/ text = Joined(f[3], 2, f[2], 2, f[1], 4, sep)
                 \/ text = Joined(f[2], 2, f[3], 2, f[1], 4, sep)

\* C19: parse_date returns a real date whose year, month and day are numbers
\* of the text, or raises the ValueError that carries the text; it raises for
\* a text of fewer than three digit groups that no strict format takes, and
\* for a text whose fields are no date (30 February, 31 April), which is never
\* turned into a date nearby.
C19_DateOrUnparseable ==
    parse_pc = "returned" =>
        LET numbers == DigitRunsFrom(date_text, 1)
        IN  /\ date_obj.status \in {"ok", "ValueError"}
            /\ date_obj.status = "ok" =>
                  /\ RealGregorianDate(date_obj.date[1], date_obj.date[2], date_obj.date[3])
                  /\ \A i \in 1..3 : \E n \in 1..Len(numbers) :
                        ~ExceedsCInt(numbers[n]) /\ IntOf(numbers[n]) = date_obj.date[i]
            /\ date_obj.status = "ValueError" => date_obj.message = date_text
            /\ (Len(numbers) < 3 /\ ~StrictFormatMatches(date_text))
                  => date_obj.status = "ValueError"
            /\ PrintsNoDate(date_text) => date_obj.status = "ValueError"

(***************************************************************************)
(* C20: single delivery per scan.                                          *)
(***************************************************************************)
\* The events of a scanner still on the Clock that stop_camera and the frame
\* handler no longer reach: self.clock_event names a later one.
LeakedEvents(s) ==
    { e \in kivy_clock :
        e.scanner = s /\ scanners[s].clock_event # Some(e.id) }

\* C20: for both scanners, between one start_camera and the next the
\* callback is invoked at most once; once it has been invoked is_scanning
\* is false and the event in clock_event is off the Clock, however many
\* events were scheduled, so the ticks that follow deliver nothing.
C20_SingleDelivery ==
    \A s \in Scanners :
        /\ scan_log[s].callbacks <= 1
        /\ scan_log[s].callbacks = 1 =>
              /\ ~scanners[s].is_scanning
              /\ scanners[s].clock_event # None
              /\ ClockEvent(s, scanners[s].clock_event[1]) \notin kivy_clock

\* A scanner started twice has delivered once, and the event of its first
\* start, still scheduled, has ticked since and found the scanner idle.
C20_Witness ==
    \E s \in Scanners :
        /\ scan_log[s].starts = 2
        /\ scan_log[s].callbacks = 1
        /\ scan_log[s].last_tick = "idle"
        /\ LeakedEvents(s) # {}
        /\ app_running

(***************************************************************************)
(* C21, C29: the scanner's state when it is stopped, and its timers.       *)
(***************************************************************************)
\* The events of a scanner that are scheduled on the Clock.
ScheduledEvents(s) == { e \in kivy_clock : e.scanner = s }

\* C21: after stop_camera has returned and until the next start_camera,
\* is_scanning is false, camera is None and no tick has delivered a callback;
\* and a scanner that is not scanning, also one that a detection stopped, has
\* released its camera (camera is None).
C21_StoppedReleased ==
    \A s \in Scanners :
        /\ scan_log[s].stopped =>
              /\ ~scanners[s].is_scanning
              /\ scanners[s].camera = "None"
              /\ ~scan_log[s].after_stop
        /\ ~scanners[s].is_scanning => scanners[s].camera = "None"

\* C29: each scanner has at most one event scheduled, is scanning only while
\* it has one, and has none once stop_camera has returned (until the next
\* start_camera).
C29_OneTimer ==
    \A s \in Scanners :
        /\ Cardinality(ScheduledEvents(s)) <= 1
        /\ scanners[s].is_scanning => ScheduledEvents(s) # {}
        /\ scan_log[s].stopped => ScheduledEvents(s) = {}

(***************************************************************************)
(* C22: the synced flag.                                                   *)
(***************************************************************************)
\* What sync_data returned, read from the operation's outcome.
SyncReturned(op) == op \in { "sync_nothing", "sync_stored" }

\* C22: in every call of sync_data, a record's synced flag goes from 0 to 1
\* only when the server stored the batch (answered 200) and the record was in
\* the batch; when the request fails or is answered with another status the
\* call returns False and product_records is unchanged; with no unsynced
\* record the call returns True and the server is not contacted.
C22_SyncedOnlyAfter200 ==
    [][ SyncData =>
          LET batch == SelectSeq(product_records, LAMBDA r : r.synced = 0)
          IN  /\ Len(product_records') = Len(product_records)
              /\ \A i \in 1..Len(product_records) :
                    product_records'[i].synced # product_records[i].synced =>
                        /\ last_op' = "sync_stored"
                        /\ product_records[i].synced = 0
                        /\ product_records'[i].synced = 1
                        /\ \E k \in 1..Len(batch) : batch[k] = product_records[i]
                        /\ AddRecordsOk(batch)
                        /\ server_records' =
                              AddRecords(server_records, batch, today, tod)
              /\ ~SyncReturned(last_op') => product_records' = product_records
              /\ last_op' \in { "sync_unreachable", "sync_rejected" } =>
                    ~SyncReturned(last_op')
              /\ batch = <<>> =>
                    /\ SyncReturned(last_op')
                    /\ server_records' = server_records
                    /\ product_records' = product_records ]_vars

\* A sync that the server stored: every record is marked, and the server
\* holds rows.
C22_Witness ==
    /\ last_op = "sync_stored"
    /\ product_records # <<>>
    /\ \A i \in 1..Len(product_records) : product_records[i].synced = 1
    /\ server_records # <<>>

(***************************************************************************)
(* C23: update_product, checked under SpecProducts.                        *)
(***************************************************************************)
\* C23: every call of update_product with an unknown barcode returns False
\* and leaves the table products as it was; with a known barcode it returns
\* True, the product's row takes the arguments that are not None and keeps
\* its other fields, every other row stays as it was, and the table holds one
\* row per barcode.
C23_UpdateChangesOnlyPassedFields ==
    [][ returned'.call = "update_product" =>
          LET barcode == returned'.args[1]
              name == returned'.args[2]
              shelf_life == returned'.args[3]
              return_days == returned'.args[4]
              known == \E q \in products : q.barcode = barcode
          IN  /\ ~known => /\ returned'.value = FALSE
                           /\ products' = products
              /\ known =>
                    /\ returned'.value = TRUE
                    /\ \A q \in products :
                          q.barcode # barcode => q \in products'
                    /\ \A q \in products' :
                          q.barcode # barcode => q \in products
                    /\ \E q \in products' : q.barcode = barcode
                    /\ \A q \in products', old \in products :
                          (q.barcode = barcode /\ old.barcode = barcode) =>
                              /\ q.name = IF name # None THEN name[1]
                                          ELSE old.name
                              /\ q.shelf_life = IF shelf_life # None
                                                THEN shelf_life[1]
                                                ELSE old.shelf_life
                              /\ q.return_days = IF return_days # None
                                                 THEN return_days[1]
                                                 ELSE old.return_days
              /\ \A q1 \in products', q2 \in products' :
                    q1.barcode = q2.barcode => q1 = q2 ]_vars

\* update_product has changed the shelf life of one of two products and was
\* given no name: the product still has the name it was added with.
C23_Witness ==
    /\ returned.call = "update_product"
    /\ returned.value = TRUE
    /\ returned.args[2] = None
    /\ returned.args[3] = Some(60)
    /\ Cardinality(products) = 2
    /\ \E q \in products :
          /\ q.barcode = returned.args[1]
          /\ q.shelf_life = 60
          /\ q.name \in ProductNames

(***************************************************************************)
(* C24: the status classes, checked under SpecStatus.                      *)
(***************************************************************************)
\* C24: the status classes partition the records.  Whatever the table holds,
\* the rows filter_products returns as normal have days_remaining > 7, those
\* it returns as expiring soon 1 .. 7, those it returns as expired <= 0, and
\* the three lists together have as many rows as the list of all records;
\* and the counts get_statistics returned satisfy
\* total = expiring_soon + expired + number of normal records.
C24_StatusPartition ==
    LET all == FilterRows(product_records, "all")
        normal == FilterRows(product_records, "normal")
        soon == FilterRows(product_records, "expiring_soon")
        expired == FilterRows(product_records, "expired")
    IN  /\ Len(all) = Len(product_records)
        /\ \A i \in 1..Len(normal) : normal[i].days_remaining > 7
        /\ \A i \in 1..Len(soon) :
              soon[i].days_remaining >= 1 /\ soon[i].days_remaining <= 7
        /\ \A i \in 1..Len(expired) : expired[i].days_remaining <= 0
        /\ Len(all) = Len(normal) + Len(soon) + Len(expired)
        /\ (returned.call = "get_statistics" /\ returned.value # None) =>
              /\ returned.value[1].total = Len(product_records)
              /\ returned.value[1].total =
                    returned.value[1].expiring_soon + returned.value[1].expired
                    + Len(normal)

\* get_statistics has counted two records, one that expires today (expired)
\* and one that is normal.
C24_Witness ==
    /\ returned.call = "get_statistics"
    /\ returned.value # None
    /\ returned.value[1] = [ total |-> 2, expiring_soon |-> 0, expired |-> 1 ]
    /\ \E i \in 1..Len(product_records) : product_records[i].days_remaining = 0
    /\ \E i \in 1..Len(product_records) : product_records[i].days_remaining = 8

(***************************************************************************)
(* C25 .. C27: the phone's tables, checked under SpecDb.                   *)
(***************************************************************************)
\* C25: a failed add_product_record leaves no write pending.  When
\* add_product_record has returned False and save_setting, which commits, is
\* the next call, the database file is after it what it was before it: the
\* failed call left nothing in the open transaction for the commit to take.
C25_FailedAddLeavesNothingPending ==
    [][ (/\ returned.call = "add_product_record"
         /\ returned.value = FALSE
         /\ returned'.call = "save_setting") =>
            committed' = committed ]_vars

\* C26: the refresh succeeds after every accepted write.  When
\* add_product_record or update_record has returned True, a get_all_products,
\* get_statistics or filter_products called next completes and returns its
\* rows or counts, whatever text the expiry date was given as.
C26_RefreshAfterAcceptedWrite ==
    [][ (/\ returned.call \in { "add_product_record", "update_record" }
         /\ returned.value = TRUE
         /\ returned'.call \in { "get_all_products", "get_statistics",
                                 "filter_products" }) =>
            returned'.value # None ]_vars

\* C27: one record per barcode and name.  Under every sequence of
\* add_product_record, update_record and delete_record calls, no two rows of
\* product_records have the same barcode and the same name.
C27_OneRecordPerBarcodeAndName ==
    \A i, j \in 1..Len(product_records) :
        (/\ product_records[i].barcode = product_records[j].barcode
         /\ product_records[i].name = product_records[j].name) => i = j

(***************************************************************************)
(* C28: the server's table, checked under SpecStore.                       *)
(***************************************************************************)
\* The rows sync_data posts, and whether the server holds a row for each.
UnsyncedRows == SelectSeq(product_records, LAMBDA r : r.synced = 0)

OnServer(row) ==
    \E i \in 1..Len(server_records) :
        /\ server_records[i].barcode = row.barcode
        /\ server_records[i].name = row.name
        /\ server_records[i].production_date = row.production_date
        /\ server_records[i].expiry_date = row.expiry_date

\* C28: syncing is idempotent on the server.  When sync_data posts a batch
\* whose every record the server already holds, the server's table has as
\* many rows after the request as before it; and a batch with a record the
\* server cannot read stores none of its rows.
C28_SyncIdempotent ==
    [][ SyncData =>
          /\ (\A i \in 1..Len(UnsyncedRows) : OnServer(UnsyncedRows[i])) =>
                Len(server_records') = Len(server_records)
          /\ ~AddRecordsOk(UnsyncedRows) => server_records' = server_records
      ]_vars

====
